---------------------------- MODULE Spec2Model ----------------------------
(***************************************************************************)
(* A model of the OCR / PII extraction pipeline of Securelytix:            *)
(*   src/src/pii_detection/pii_detector.py   PIIDetector                   *)
(*   src/src/ocr/ocr_engine.py               OCREngine                     *)
(* Texts are sequences of one-character strings.  Detector confidences are *)
(* integers in units of 1/1000; recogniser confidences are integers in     *)
(* units of 1/ConfUnit.                                                    *)
(***************************************************************************)
EXTENDS Integers, Sequences, FiniteSets, TLC

VARIABLES
    mode,           \* which component the behaviour exercises
    pc,             \* position inside the running operation
    matches,        \* _deduplicate_matches: the (sorted) candidate list
    deduplicated,   \* _deduplicate_matches: the accepted list
    idx,            \* _deduplicate_matches: number of candidates walked
    lastStep,       \* _deduplicate_matches: what the last iteration did
    engine,         \* OCREngine: preferred_engine, easyocr_reader, tesseract_ok
    ocr,            \* extract_with_confidence: its locals and metadata
    backend_log,    \* extract_with_confidence: the backend calls made so far
    ocr_result,     \* extract_with_confidence: the returned triple
    input_text,     \* detect_all_pii: the text searched
    all_matches,    \* detect_all_pii: the matches collected so far
    scored,         \* detect_all_pii: every candidate the scorers were given
    candidate,      \* a string handed to a validator
    verdict,        \* the validator called on candidate, and its answer
    clean_call,     \* TextCleaner: the method called and its arguments
    clean_returns,  \* TextCleaner: what successive applications returned
    fs,             \* the images on disk and what each one does to the stages
    request,        \* process_image / process_batch: the arguments
    proc,           \* process_image: its locals
    proc_result,    \* process_image: the PIIResult returned
    results,        \* process_batch: the results dictionary
    redaction,      \* generate_redacted_image: arguments, image copy, files
    prep            \* ImagePreprocessor.preprocess: its locals and metadata

dedupVars == <<matches, deduplicated, idx, lastStep>>
ocrVars == <<engine, ocr, backend_log, ocr_result>>
piiVars == <<input_text, all_matches, scored, candidate, verdict>>
cleanVars == <<clean_call, clean_returns>>
pipeVars == <<fs, request, proc, proc_result, results>>
redactVars == <<redaction>>
prepVars == <<prep>>
detVars == <<dedupVars, ocrVars, piiVars>>
restVars == <<cleanVars, pipeVars, redactVars, prepVars>>
vars == <<mode, pc, dedupVars, ocrVars, piiVars, restVars>>

\* The components a behaviour does not exercise stay as constructed.
CleanerIdle ==
    /\ clean_call = [fn |-> "none"]
    /\ clean_returns = <<>>

PipelineIdle ==
    /\ fs = <<>>
    /\ request = [kind |-> "none"]
    /\ proc = [image_path |-> <<>>]
    /\ proc_result = [returned |-> FALSE]
    /\ results = <<>>

RedactIdle == redaction = [method |-> "none"]

PreprocessIdle == prep = [at |-> "none"]

RestIdle == CleanerIdle /\ PipelineIdle /\ RedactIdle /\ PreprocessIdle

(***************************************************************************)
(* Bounds of the model.                                                    *)
(***************************************************************************)
MaxCands == 3       \* candidates handed to one _deduplicate_matches call
MaxPos == 3         \* candidate offsets range over 0..MaxPos
MaxFrags == 2       \* fragments one recognition backend reports for an image

(***************************************************************************)
(* Sequence helpers.                                                       *)
(***************************************************************************)
Range(s) == {s[i] : i \in 1..Len(s)}

SeqsUpTo(S, n) == UNION {[1..k -> S] : k \in 0..n}

\* list.remove(x): drops the first element equal to x.
RemoveFirst(s, x) ==
    LET hit == {i \in 1..Len(s) : s[i] = x}
    IN  IF hit = {} THEN s
        ELSE LET k == CHOOSE i \in hit : \A j \in hit : i <= j
             IN  SubSeq(s, 1, k - 1) \o SubSeq(s, k + 1, Len(s))

\* list.sort(key=lambda x: x.start_pos): stable, ascending by start_pos.
RECURSIVE SortByStart(_)
SortByStart(s) ==
    IF Len(s) <= 1 THEN s
    ELSE LET rest == SortByStart(SubSeq(s, 1, Len(s) - 1))
             x == s[Len(s)]
             k == Cardinality({i \in 1..Len(rest) : rest[i].start_pos <= x.start_pos})
         IN  SubSeq(rest, 1, k) \o <<x>> \o SubSeq(rest, k + 1, Len(rest))

(***************************************************************************)
(* PIIMatch and overlap.                                                   *)
(***************************************************************************)
PIIMatch(text, pii_type, confidence, start_pos, end_pos) ==
    [text |-> text, pii_type |-> pii_type, confidence |-> confidence,
     start_pos |-> start_pos, end_pos |-> end_pos]

\* The overlap test of the walk: match against an accepted match.
Overlaps(match, existing) ==
    match.start_pos < existing.end_pos /\ match.end_pos > existing.start_pos

\* Mutant: a candidate of equal confidence replaces the accepted match too.
CandidateWinsOnTie(match, existing) == match.confidence >= existing.confidence

\* The comparison that lets a candidate replace the accepted match.
CandidateWins(match, existing) == match.confidence > existing.confidence

\* Index of the first accepted match the candidate overlaps, 0 if none:
\* the inner loop stops at the first overlap (break).
FirstOverlap(acc, match) ==
    LET hit == {i \in 1..Len(acc) : Overlaps(match, acc[i])}
    IN  IF hit = {} THEN 0 ELSE CHOOSE i \in hit : \A j \in hit : i <= j

\* Mutant: the winning candidate is appended and the loser is not removed.
DedupIterKeepsLoser(acc, match) ==
    LET k == FirstOverlap(acc, match)
    IN  IF k = 0 THEN Append(acc, match)
        ELSE IF CandidateWins(match, acc[k]) THEN Append(acc, match) ELSE acc

\* Mutant: an accepted match is never replaced.
DedupIterFirstWins(acc, match) ==
    IF FirstOverlap(acc, match) = 0 THEN Append(acc, match) ELSE acc

\* One iteration of the outer loop of _deduplicate_matches.
DedupIter(acc, match) ==
    LET k == FirstOverlap(acc, match)
    IN  IF k = 0 THEN Append(acc, match)
        ELSE IF CandidateWins(match, acc[k])
             THEN Append(RemoveFirst(acc, acc[k]), match)
             ELSE acc

\* The outer loop over the sorted candidates.
RECURSIVE DedupWalk(_, _)
DedupWalk(acc, ms) ==
    IF ms = <<>> THEN acc ELSE DedupWalk(DedupIter(acc, Head(ms)), Tail(ms))

\* _deduplicate_matches as a function of its argument.
_deduplicate_matches(ms) ==
    IF ms = <<>> THEN ms ELSE DedupWalk(<<>>, SortByStart(ms))

(***************************************************************************)
(* Characters.                                                             *)
(***************************************************************************)
Digits == {"0", "1", "2", "3", "4", "5", "6", "7", "8", "9"}

Upper == {"A", "B", "C", "D", "E", "F", "G", "H", "I", "J", "K", "L", "M",
          "N", "O", "P", "Q", "R", "S", "T", "U", "V", "W", "X", "Y", "Z"}

Lower == {"a", "b", "c", "d", "e", "f", "g", "h", "i", "j", "k", "l", "m",
          "n", "o", "p", "q", "r", "s", "t", "u", "v", "w", "x", "y", "z"}

Whitespace == {" ", "\t", "\n"}

\* str.isdigit(): non-empty and digits only.
IsDigitStr(w) == w # <<>> /\ \A i \in 1..Len(w) : w[i] \in Digits

\* str.strip()
RECURSIVE Strip(_)
Strip(s) ==
    IF s = <<>> THEN s
    ELSE IF Head(s) \in Whitespace THEN Strip(Tail(s))
    ELSE IF s[Len(s)] \in Whitespace THEN Strip(SubSeq(s, 1, Len(s) - 1))
    ELSE s

\* str.split(): the maximal runs of non-whitespace characters.
RECURSIVE SplitWords(_, _)
SplitWords(s, cur) ==
    IF s = <<>> THEN (IF cur = <<>> THEN <<>> ELSE <<cur>>)
    ELSE IF Head(s) \in Whitespace
         THEN (IF cur = <<>> THEN <<>> ELSE <<cur>>) \o SplitWords(Tail(s), <<>>)
         ELSE SplitWords(Tail(s), Append(cur, Head(s)))

\* ' '.join(parts)
RECURSIVE JoinSpace(_)
JoinSpace(parts) ==
    IF parts = <<>> THEN <<>>
    ELSE IF Len(parts) = 1 THEN parts[1]
    ELSE parts[1] \o <<" ">> \o JoinSpace(Tail(parts))

\* str.replace(old, new) for one-character old and new.
ReplaceChar(w, old, new) == [i \in 1..Len(w) |-> IF w[i] = old THEN new ELSE w[i]]

RECURSIVE SumSeq(_)
SumSeq(s) == IF s = <<>> THEN 0 ELSE Head(s) + SumSeq(Tail(s))

RECURSIVE Gcd(_, _)
Gcd(a, b) == IF b = 0 THEN a ELSE Gcd(b, a % b)

RECURSIVE LcmUpTo(_)
LcmUpTo(n) == IF n <= 1 THEN 1 ELSE (LcmUpTo(n - 1) * n) \div Gcd(LcmUpTo(n - 1), n)

(***************************************************************************)
(* Regular expressions.  A pattern is kept as its source text (src), its   *)
(* number of capture groups, and its parse (re).  A match state is the     *)
(* triple <<pos, gs, ge>>: the offset reached and the span of group 1      *)
(* (-1 while unset).  Matching returns the states a node can end in, in    *)
(* the order a backtracking matcher tries them; the first is the match.    *)
(***************************************************************************)
UpperSeq == <<"A", "B", "C", "D", "E", "F", "G", "H", "I", "J", "K", "L", "M", "N", "O", "P", "Q", "R", "S", "T", "U", "V", "W", "X", "Y", "Z">>

LowerSeq == <<"a", "b", "c", "d", "e", "f", "g", "h", "i", "j", "k", "l", "m", "n", "o", "p", "q", "r", "s", "t", "u", "v", "w", "x", "y", "z">>

\* str.lower() of one character
ToLower(c) ==
    IF c \in Upper THEN LowerSeq[CHOOSE i \in 1..26 : UpperSeq[i] = c] ELSE c

ToUpper(c) ==
    IF c \in Lower THEN UpperSeq[CHOOSE i \in 1..26 : LowerSeq[i] = c] ELSE c

\* str.lower()
LowerStr(s) == [i \in 1..Len(s) |-> ToLower(s[i])]

\* needle in hay
Contains(hay, needle) ==
    \E i \in 0..(Len(hay) - Len(needle)) : SubSeq(hay, i + 1, i + Len(needle)) = needle

\* text[a:b] for 0 <= a
Slice(t, a, b) == SubSeq(t, a + 1, IF b > Len(t) THEN Len(t) ELSE b)

Ch(S) == [k |-> "set", s |-> S]

Dot == [k |-> "dot"]

Cat(a) == [k |-> "cat", a |-> a]

Lit(str) == Cat([i \in 1..Len(str) |-> Ch({str[i]})])

Alt(a) == [k |-> "alt", a |-> a]

Rep(r, min, max) == [k |-> "rep", r |-> r, min |-> min, max |-> max, greedy |-> TRUE]

RepLazy(r, min, max) == [k |-> "rep", r |-> r, min |-> min, max |-> max, greedy |-> FALSE]

Grp(n, r) == [k |-> "grp", n |-> n, r |-> r]

Look(r) == [k |-> "look", r |-> r]

\* (?<=r)
LookBehind(r) == [k |-> "lookbehind", r |-> r]

\* [^...]: any character outside S
NotCh(S) == [k |-> "nset", s |-> S]

\* \w
WordChars == Upper \cup Lower \cup Digits \cup {"_"}

WordBoundary == [k |-> "wb"]

EndOfText == [k |-> "eol"]

\* A character against a class, under re.IGNORECASE when ic.
CharIn(c, S, ic) == c \in S \/ (ic /\ (ToLower(c) \in S \/ ToUpper(c) \in S))

\* \w at offset p (FALSE outside the text)
IsWordAt(t, p) ==
    p >= 0 /\ p < Len(t) /\ t[p + 1] \in WordChars

RECURSIVE MatchNode(_, _, _, _)
RECURSIVE MatchCat(_, _, _, _, _)
RECURSIVE MatchCatEach(_, _, _, _, _, _)
RECURSIVE MatchAlt(_, _, _, _, _)
RECURSIVE MatchRep(_, _, _, _, _)
RECURSIVE MatchRepEach(_, _, _, _, _, _, _)

MatchNode(r, t, st, ic) ==
    CASE r.k = "set" ->
            IF st[1] < Len(t) /\ CharIn(t[st[1] + 1], r.s, ic)
            THEN << [st EXCEPT ![1] = st[1] + 1] >> ELSE <<>>
      [] r.k = "nset" ->
            IF st[1] < Len(t) /\ t[st[1] + 1] \notin r.s
            THEN << [st EXCEPT ![1] = st[1] + 1] >> ELSE <<>>
      [] r.k = "dot" ->
            IF st[1] < Len(t) /\ t[st[1] + 1] # "\n"
            THEN << [st EXCEPT ![1] = st[1] + 1] >> ELSE <<>>
      [] r.k = "cat" -> MatchCat(r.a, 1, t, st, ic)
      [] r.k = "alt" -> MatchAlt(r.a, 1, t, st, ic)
      [] r.k = "rep" -> MatchRep(r, 0, t, st, ic)
      [] r.k = "grp" ->
            LET es == MatchNode(r.r, t, st, ic)
            IN  [j \in 1..Len(es) |->
                    [es[j] EXCEPT ![2 * r.n] = st[1], ![2 * r.n + 1] = es[j][1]]]
      [] r.k = "look" -> IF MatchNode(r.r, t, st, ic) # <<>> THEN <<st>> ELSE <<>>
      [] r.k = "lookbehind" ->
            IF \E from \in 0..st[1] :
                  \E j \in DOMAIN MatchNode(r.r, t, [st EXCEPT ![1] = from], ic) :
                      MatchNode(r.r, t, [st EXCEPT ![1] = from], ic)[j][1] = st[1]
            THEN <<st>> ELSE <<>>
      [] r.k = "wb" ->
            IF IsWordAt(t, st[1] - 1) # IsWordAt(t, st[1]) THEN <<st>> ELSE <<>>
      [] r.k = "eol" ->
            IF st[1] = Len(t) \/ (st[1] = Len(t) - 1 /\ t[Len(t)] = "\n")
            THEN <<st>> ELSE <<>>

MatchCat(a, j, t, st, ic) ==
    IF j > Len(a) THEN <<st>>
    ELSE MatchCatEach(a, j, t, MatchNode(a[j], t, st, ic), 1, ic)

MatchCatEach(a, j, t, sts, n, ic) ==
    IF n > Len(sts) THEN <<>>
    ELSE MatchCat(a, j + 1, t, sts[n], ic) \o MatchCatEach(a, j, t, sts, n + 1, ic)

MatchAlt(a, j, t, st, ic) ==
    IF j > Len(a) THEN <<>>
    ELSE MatchNode(a[j], t, st, ic) \o MatchAlt(a, j + 1, t, st, ic)

MatchRep(r, done, t, st, ic) ==
    LET more == IF r.max # -1 /\ done >= r.max THEN <<>>
                ELSE MatchRepEach(r, done, t, MatchNode(r.r, t, st, ic), 1, ic, st[1])
        stop == IF done >= r.min THEN <<st>> ELSE <<>>
    IN  IF r.greedy THEN more \o stop ELSE stop \o more

MatchRepEach(r, done, t, sts, n, ic, from) ==
    IF n > Len(sts) THEN <<>>
    ELSE (IF sts[n][1] > from THEN MatchRep(r, done + 1, t, sts[n], ic) ELSE <<>>)
             \o MatchRepEach(r, done, t, sts, n + 1, ic, from)

\* re.match(re, t) at offset pos: the match found, as a sequence of 0 or 1.
MatchAt(re, t, pos, ic) ==
    LET es == MatchNode(re, t, <<pos, -1, -1, -1, -1, -1, -1>>, ic)
    IN  IF es = <<>> THEN <<>>
        ELSE <<[start |-> pos, end |-> es[1][1], gs |-> es[1][2], ge |-> es[1][3],
                groups |-> es[1]]>>

\* re.search(re, t) is not None
Search(re, t, ic) == \E pos \in 0..Len(t) : MatchAt(re, t, pos, ic) # <<>>

\* re.finditer(pattern, t): the non-overlapping matches, left to right.
RECURSIVE FindIter(_, _, _, _)
FindIter(re, t, pos, ic) ==
    IF pos > Len(t) THEN <<>>
    ELSE LET m == MatchAt(re, t, pos, ic)
         IN  IF m = <<>> THEN FindIter(re, t, pos + 1, ic)
             ELSE m \o FindIter(re, t,
                               IF m[1].end > pos THEN m[1].end ELSE pos + 1, ic)

RECURSIVE Flatten(_)
Flatten(ss) == IF ss = <<>> THEN <<>> ELSE Head(ss) \o Flatten(Tail(ss))

\* for pattern in patterns: for match in re.finditer(pattern, text, flags)
AllMatches(patterns, t, ic) ==
    Flatten([i \in 1..Len(patterns) |->
        LET ms == FindIter(patterns[i].re, t, 0, ic)
        IN  [j \in 1..Len(ms) |-> [pattern |-> patterns[i], m |-> ms[j]]]])

\* The span taken from a match: group 1, or the whole match.
GroupSpan(m) == [start |-> m.gs, end |-> m.ge]

WholeSpan(m) == [start |-> m.start, end |-> m.end]

(***************************************************************************)
(* The pattern tables of PIIDetector.__init__.                             *)
(***************************************************************************)
name_patterns ==
    <<
    \* self.name_patterns[0]
    \*   r'\b(?:Mr\.?|Mrs\.?|Ms\.?|Dr\.?|Doctor)\s+([A-Z][a-z]+\s+[A-Z][a-z]+)\b'
        [src |->
            <<"\\", "b", "(", "?", ":", "M", "r", "\\", ".", "?", "|", "M", "r",
            "s", "\\", ".", "?", "|", "M", "s", "\\", ".", "?", "|", "D", "r",
            "\\", ".", "?", "|", "D", "o", "c", "t", "o", "r", ")", "\\", "s",
            "+", "(", "[", "A", "-", "Z", "]", "[", "a", "-", "z", "]", "+",
            "\\", "s", "+", "[", "A", "-", "Z", "]", "[", "a", "-", "z", "]",
            "+", ")", "\\", "b">>,
         groups |-> 1,
         re |->
            Cat(<<WordBoundary, Alt(<<Cat(<<Lit(<<"M", "r">>), Rep(Ch({"."}), 0,
            1)>>), Cat(<<Lit(<<"M", "r", "s">>), Rep(Ch({"."}), 0, 1)>>),
            Cat(<<Lit(<<"M", "s">>), Rep(Ch({"."}), 0, 1)>>), Cat(<<Lit(<<"D",
            "r">>), Rep(Ch({"."}), 0, 1)>>), Lit(<<"D", "o", "c", "t", "o",
            "r">>)>>), Rep(Ch(Whitespace), 1, -1), Grp(1, Cat(<<Ch(Upper),
            Rep(Ch(Lower), 1, -1), Rep(Ch(Whitespace), 1, -1), Ch(Upper),
            Rep(Ch(Lower), 1, -1)>>)), WordBoundary>>)],
    \* self.name_patterns[1]
    \*   r'\bPatient:\s*([A-Z][a-z]+\s+[A-Z][a-z]+)\b'
        [src |->
            <<"\\", "b", "P", "a", "t", "i", "e", "n", "t", ":", "\\", "s", "*",
            "(", "[", "A", "-", "Z", "]", "[", "a", "-", "z", "]", "+", "\\",
            "s", "+", "[", "A", "-", "Z", "]", "[", "a", "-", "z", "]", "+", ")",
            "\\", "b">>,
         groups |-> 1,
         re |->
            Cat(<<WordBoundary, Lit(<<"P", "a", "t", "i", "e", "n", "t", ":">>),
            Rep(Ch(Whitespace), 0, -1), Grp(1, Cat(<<Ch(Upper), Rep(Ch(Lower), 1,
            -1), Rep(Ch(Whitespace), 1, -1), Ch(Upper), Rep(Ch(Lower), 1,
            -1)>>)), WordBoundary>>)],
    \* self.name_patterns[2]
    \*   r'\bName:\s*([A-Z][a-z]+\s+[A-Z][a-z]+)\b'
        [src |->
            <<"\\", "b", "N", "a", "m", "e", ":", "\\", "s", "*", "(", "[", "A",
            "-", "Z", "]", "[", "a", "-", "z", "]", "+", "\\", "s", "+", "[",
            "A", "-", "Z", "]", "[", "a", "-", "z", "]", "+", ")", "\\", "b">>,
         groups |-> 1,
         re |->
            Cat(<<WordBoundary, Lit(<<"N", "a", "m", "e", ":">>),
            Rep(Ch(Whitespace), 0, -1), Grp(1, Cat(<<Ch(Upper), Rep(Ch(Lower), 1,
            -1), Rep(Ch(Whitespace), 1, -1), Ch(Upper), Rep(Ch(Lower), 1,
            -1)>>)), WordBoundary>>)],
    \* self.name_patterns[3]
    \*   r'\b([A-Z][a-z]+\s+[A-Z][a-z]+)\b(?=\s*(?:DOB|Age|Born))'
        [src |->
            <<"\\", "b", "(", "[", "A", "-", "Z", "]", "[", "a", "-", "z", "]",
            "+", "\\", "s", "+", "[", "A", "-", "Z", "]", "[", "a", "-", "z",
            "]", "+", ")", "\\", "b", "(", "?", "=", "\\", "s", "*", "(", "?",
            ":", "D", "O", "B", "|", "A", "g", "e", "|", "B", "o", "r", "n", ")",
            ")">>,
         groups |-> 1,
         re |->
            Cat(<<WordBoundary, Grp(1, Cat(<<Ch(Upper), Rep(Ch(Lower), 1, -1),
            Rep(Ch(Whitespace), 1, -1), Ch(Upper), Rep(Ch(Lower), 1, -1)>>)),
            WordBoundary, Look(Cat(<<Rep(Ch(Whitespace), 0, -1), Alt(<<Lit(<<"D",
            "O", "B">>), Lit(<<"A", "g", "e">>), Lit(<<"B", "o", "r",
            "n">>)>>)>>))>>)],
    \* self.name_patterns[4]
    \*   r'\b([A-Z][a-z]{2,}\s+[A-Z][a-z]{2,})\b'
        [src |->
            <<"\\", "b", "(", "[", "A", "-", "Z", "]", "[", "a", "-", "z", "]",
            "{", "2", ",", "}", "\\", "s", "+", "[", "A", "-", "Z", "]", "[",
            "a", "-", "z", "]", "{", "2", ",", "}", ")", "\\", "b">>,
         groups |-> 1,
         re |->
            Cat(<<WordBoundary, Grp(1, Cat(<<Ch(Upper), Rep(Ch(Lower), 2, -1),
            Rep(Ch(Whitespace), 1, -1), Ch(Upper), Rep(Ch(Lower), 2, -1)>>)),
            WordBoundary>>)]
    >>

address_patterns ==
    <<
    \* self.address_patterns[0]
    \*   r'\b\d+\s+[A-Z][a-z]+(?:\s+[A-Z][a-z]+)*\s+(?:Street|St|Avenue|Ave|Road|Rd|Lane|Ln|Drive|Dr|Boulevard|Blvd)\b'
        [src |->
            <<"\\", "b", "\\", "d", "+", "\\", "s", "+", "[", "A", "-", "Z", "]",
            "[", "a", "-", "z", "]", "+", "(", "?", ":", "\\", "s", "+", "[",
            "A", "-", "Z", "]", "[", "a", "-", "z", "]", "+", ")", "*", "\\",
            "s", "+", "(", "?", ":", "S", "t", "r", "e", "e", "t", "|", "S", "t",
            "|", "A", "v", "e", "n", "u", "e", "|", "A", "v", "e", "|", "R", "o",
            "a", "d", "|", "R", "d", "|", "L", "a", "n", "e", "|", "L", "n", "|",
            "D", "r", "i", "v", "e", "|", "D", "r", "|", "B", "o", "u", "l", "e",
            "v", "a", "r", "d", "|", "B", "l", "v", "d", ")", "\\", "b">>,
         groups |-> 0,
         re |->
            Cat(<<WordBoundary, Rep(Ch(Digits), 1, -1), Rep(Ch(Whitespace), 1,
            -1), Ch(Upper), Rep(Ch(Lower), 1, -1), Rep(Cat(<<Rep(Ch(Whitespace),
            1, -1), Ch(Upper), Rep(Ch(Lower), 1, -1)>>), 0, -1),
            Rep(Ch(Whitespace), 1, -1), Alt(<<Lit(<<"S", "t", "r", "e", "e",
            "t">>), Lit(<<"S", "t">>), Lit(<<"A", "v", "e", "n", "u", "e">>),
            Lit(<<"A", "v", "e">>), Lit(<<"R", "o", "a", "d">>), Lit(<<"R",
            "d">>), Lit(<<"L", "a", "n", "e">>), Lit(<<"L", "n">>), Lit(<<"D",
            "r", "i", "v", "e">>), Lit(<<"D", "r">>), Lit(<<"B", "o", "u", "l",
            "e", "v", "a", "r", "d">>), Lit(<<"B", "l", "v", "d">>)>>),
            WordBoundary>>)],
    \* self.address_patterns[1]
    \*   r'\b\d+\s+[A-Z][a-z]+(?:\s+[A-Z][a-z]+)*\s+(?:Street|St|Avenue|Ave|Road|Rd|Lane|Ln|Drive|Dr|Boulevard|Blvd)(?:\s*,?\s*[A-Z][a-z]+\s*,?\s*[A-Z]{2}\s*\d{5}(?:-\d{4})?)?'
        [src |->
            <<"\\", "b", "\\", "d", "+", "\\", "s", "+", "[", "A", "-", "Z", "]",
            "[", "a", "-", "z", "]", "+", "(", "?", ":", "\\", "s", "+", "[",
            "A", "-", "Z", "]", "[", "a", "-", "z", "]", "+", ")", "*", "\\",
            "s", "+", "(", "?", ":", "S", "t", "r", "e", "e", "t", "|", "S", "t",
            "|", "A", "v", "e", "n", "u", "e", "|", "A", "v", "e", "|", "R", "o",
            "a", "d", "|", "R", "d", "|", "L", "a", "n", "e", "|", "L", "n", "|",
            "D", "r", "i", "v", "e", "|", "D", "r", "|", "B", "o", "u", "l", "e",
            "v", "a", "r", "d", "|", "B", "l", "v", "d", ")", "(", "?", ":",
            "\\", "s", "*", ",", "?", "\\", "s", "*", "[", "A", "-", "Z", "]",
            "[", "a", "-", "z", "]", "+", "\\", "s", "*", ",", "?", "\\", "s",
            "*", "[", "A", "-", "Z", "]", "{", "2", "}", "\\", "s", "*", "\\",
            "d", "{", "5", "}", "(", "?", ":", "-", "\\", "d", "{", "4", "}",
            ")", "?", ")", "?">>,
         groups |-> 0,
         re |->
            Cat(<<WordBoundary, Rep(Ch(Digits), 1, -1), Rep(Ch(Whitespace), 1,
            -1), Ch(Upper), Rep(Ch(Lower), 1, -1), Rep(Cat(<<Rep(Ch(Whitespace),
            1, -1), Ch(Upper), Rep(Ch(Lower), 1, -1)>>), 0, -1),
            Rep(Ch(Whitespace), 1, -1), Alt(<<Lit(<<"S", "t", "r", "e", "e",
            "t">>), Lit(<<"S", "t">>), Lit(<<"A", "v", "e", "n", "u", "e">>),
            Lit(<<"A", "v", "e">>), Lit(<<"R", "o", "a", "d">>), Lit(<<"R",
            "d">>), Lit(<<"L", "a", "n", "e">>), Lit(<<"L", "n">>), Lit(<<"D",
            "r", "i", "v", "e">>), Lit(<<"D", "r">>), Lit(<<"B", "o", "u", "l",
            "e", "v", "a", "r", "d">>), Lit(<<"B", "l", "v", "d">>)>>),
            Rep(Cat(<<Rep(Ch(Whitespace), 0, -1), Rep(Ch({","}), 0, 1),
            Rep(Ch(Whitespace), 0, -1), Ch(Upper), Rep(Ch(Lower), 1, -1),
            Rep(Ch(Whitespace), 0, -1), Rep(Ch({","}), 0, 1), Rep(Ch(Whitespace),
            0, -1), Rep(Ch(Upper), 2, 2), Rep(Ch(Whitespace), 0, -1),
            Rep(Ch(Digits), 5, 5), Rep(Cat(<<Ch({"-"}), Rep(Ch(Digits), 4, 4)>>),
            0, 1)>>), 0, 1)>>)],
    \* self.address_patterns[2]
    \*   r'Address:\s*(.+?)(?:\n|$)'
        [src |->
            <<"A", "d", "d", "r", "e", "s", "s", ":", "\\", "s", "*", "(", ".",
            "+", "?", ")", "(", "?", ":", "\\", "n", "|", "$", ")">>,
         groups |-> 1,
         re |->
            Cat(<<Lit(<<"A", "d", "d", "r", "e", "s", "s", ":">>),
            Rep(Ch(Whitespace), 0, -1), Grp(1, RepLazy(Dot, 1, -1)),
            Alt(<<Ch({"\n"}), EndOfText>>)>>)],
    \* self.address_patterns[3]
    \*   r'\b[A-Z][a-z]+\s*,\s*[A-Z]{2}\s+\d{5}(?:-\d{4})?\b'
        [src |->
            <<"\\", "b", "[", "A", "-", "Z", "]", "[", "a", "-", "z", "]", "+",
            "\\", "s", "*", ",", "\\", "s", "*", "[", "A", "-", "Z", "]", "{",
            "2", "}", "\\", "s", "+", "\\", "d", "{", "5", "}", "(", "?", ":",
            "-", "\\", "d", "{", "4", "}", ")", "?", "\\", "b">>,
         groups |-> 0,
         re |->
            Cat(<<WordBoundary, Ch(Upper), Rep(Ch(Lower), 1, -1),
            Rep(Ch(Whitespace), 0, -1), Ch({","}), Rep(Ch(Whitespace), 0, -1),
            Rep(Ch(Upper), 2, 2), Rep(Ch(Whitespace), 1, -1), Rep(Ch(Digits), 5,
            5), Rep(Cat(<<Ch({"-"}), Rep(Ch(Digits), 4, 4)>>), 0, 1),
            WordBoundary>>)]
    >>

phone_patterns ==
    <<
    \* self.phone_patterns[0]
    \*   r'\b(?:\+?1[-.\s]?)?\(?([0-9]{3})\)?[-.\s]?([0-9]{3})[-.\s]?([0-9]{4})\b'
        [src |->
            <<"\\", "b", "(", "?", ":", "\\", "+", "?", "1", "[", "-", ".", "\\",
            "s", "]", "?", ")", "?", "\\", "(", "?", "(", "[", "0", "-", "9",
            "]", "{", "3", "}", ")", "\\", ")", "?", "[", "-", ".", "\\", "s",
            "]", "?", "(", "[", "0", "-", "9", "]", "{", "3", "}", ")", "[", "-",
            ".", "\\", "s", "]", "?", "(", "[", "0", "-", "9", "]", "{", "4",
            "}", ")", "\\", "b">>,
         groups |-> 3,
         re |->
            Cat(<<WordBoundary, Rep(Cat(<<Rep(Ch({"+"}), 0, 1), Ch({"1"}),
            Rep(Ch(Whitespace \cup {"-", "."}), 0, 1)>>), 0, 1), Rep(Ch({"("}),
            0, 1), Grp(1, Rep(Ch(Digits), 3, 3)), Rep(Ch({")"}), 0, 1),
            Rep(Ch(Whitespace \cup {"-", "."}), 0, 1), Grp(2, Rep(Ch(Digits), 3,
            3)), Rep(Ch(Whitespace \cup {"-", "."}), 0, 1), Grp(3,
            Rep(Ch(Digits), 4, 4)), WordBoundary>>)],
    \* self.phone_patterns[1]
    \*   r'\bPhone:\s*([0-9\-\.\(\)\s]+)\b'
        [src |->
            <<"\\", "b", "P", "h", "o", "n", "e", ":", "\\", "s", "*", "(", "[",
            "0", "-", "9", "\\", "-", "\\", ".", "\\", "(", "\\", ")", "\\", "s",
            "]", "+", ")", "\\", "b">>,
         groups |-> 1,
         re |->
            Cat(<<WordBoundary, Lit(<<"P", "h", "o", "n", "e", ":">>),
            Rep(Ch(Whitespace), 0, -1), Grp(1,
            Rep(Ch(Digits \cup Whitespace \cup {"-", ".", "(", ")"}), 1, -1)),
            WordBoundary>>)],
    \* self.phone_patterns[2]
    \*   r'\bTel:\s*([0-9\-\.\(\)\s]+)\b'
        [src |->
            <<"\\", "b", "T", "e", "l", ":", "\\", "s", "*", "(", "[", "0", "-",
            "9", "\\", "-", "\\", ".", "\\", "(", "\\", ")", "\\", "s", "]", "+",
            ")", "\\", "b">>,
         groups |-> 1,
         re |->
            Cat(<<WordBoundary, Lit(<<"T", "e", "l", ":">>), Rep(Ch(Whitespace),
            0, -1), Grp(1, Rep(Ch(Digits \cup Whitespace \cup {"-", ".", "(",
            ")"}), 1, -1)), WordBoundary>>)],
    \* self.phone_patterns[3]
    \*   r'\bCell:\s*([0-9\-\.\(\)\s]+)\b'
        [src |->
            <<"\\", "b", "C", "e", "l", "l", ":", "\\", "s", "*", "(", "[", "0",
            "-", "9", "\\", "-", "\\", ".", "\\", "(", "\\", ")", "\\", "s", "]",
            "+", ")", "\\", "b">>,
         groups |-> 1,
         re |->
            Cat(<<WordBoundary, Lit(<<"C", "e", "l", "l", ":">>),
            Rep(Ch(Whitespace), 0, -1), Grp(1,
            Rep(Ch(Digits \cup Whitespace \cup {"-", ".", "(", ")"}), 1, -1)),
            WordBoundary>>)]
    >>

medical_id_patterns ==
    <<
    \* self.medical_id_patterns[0]
    \*   r'\b(?:MRN|Medical Record|Patient ID|Chart):\s*([A-Z0-9\-]+)\b'
        [src |->
            <<"\\", "b", "(", "?", ":", "M", "R", "N", "|", "M", "e", "d", "i",
            "c", "a", "l", " ", "R", "e", "c", "o", "r", "d", "|", "P", "a", "t",
            "i", "e", "n", "t", " ", "I", "D", "|", "C", "h", "a", "r", "t", ")",
            ":", "\\", "s", "*", "(", "[", "A", "-", "Z", "0", "-", "9", "\\",
            "-", "]", "+", ")", "\\", "b">>,
         groups |-> 1,
         re |->
            Cat(<<WordBoundary, Alt(<<Lit(<<"M", "R", "N">>), Lit(<<"M", "e",
            "d", "i", "c", "a", "l", " ", "R", "e", "c", "o", "r", "d">>),
            Lit(<<"P", "a", "t", "i", "e", "n", "t", " ", "I", "D">>), Lit(<<"C",
            "h", "a", "r", "t">>)>>), Ch({":"}), Rep(Ch(Whitespace), 0, -1),
            Grp(1, Rep(Ch(Upper \cup Digits \cup {"-"}), 1, -1)), WordBoundary>>)],
    \* self.medical_id_patterns[1]
    \*   r'\b(?:MR|MRN)#?\s*([A-Z0-9\-]{6,12})\b'
        [src |->
            <<"\\", "b", "(", "?", ":", "M", "R", "|", "M", "R", "N", ")", "#",
            "?", "\\", "s", "*", "(", "[", "A", "-", "Z", "0", "-", "9", "\\",
            "-", "]", "{", "6", ",", "1", "2", "}", ")", "\\", "b">>,
         groups |-> 1,
         re |->
            Cat(<<WordBoundary, Lit(<<"M", "R">>), Alt(<<Cat(<<>>), Ch({"N"})>>),
            Rep(Ch({"#"}), 0, 1), Rep(Ch(Whitespace), 0, -1), Grp(1,
            Rep(Ch(Upper \cup Digits \cup {"-"}), 6, 12)), WordBoundary>>)],
    \* self.medical_id_patterns[2]
    \*   r'\bPatient\s+ID:\s*([A-Z0-9\-]+)\b'
        [src |->
            <<"\\", "b", "P", "a", "t", "i", "e", "n", "t", "\\", "s", "+", "I",
            "D", ":", "\\", "s", "*", "(", "[", "A", "-", "Z", "0", "-", "9",
            "\\", "-", "]", "+", ")", "\\", "b">>,
         groups |-> 1,
         re |->
            Cat(<<WordBoundary, Lit(<<"P", "a", "t", "i", "e", "n", "t">>),
            Rep(Ch(Whitespace), 1, -1), Lit(<<"I", "D", ":">>),
            Rep(Ch(Whitespace), 0, -1), Grp(1,
            Rep(Ch(Upper \cup Digits \cup {"-"}), 1, -1)), WordBoundary>>)],
    \* self.medical_id_patterns[3]
    \*   r'\bChart\s+#:\s*([A-Z0-9\-]+)\b'
        [src |->
            <<"\\", "b", "C", "h", "a", "r", "t", "\\", "s", "+", "#", ":", "\\",
            "s", "*", "(", "[", "A", "-", "Z", "0", "-", "9", "\\", "-", "]",
            "+", ")", "\\", "b">>,
         groups |-> 1,
         re |->
            Cat(<<WordBoundary, Lit(<<"C", "h", "a", "r", "t">>),
            Rep(Ch(Whitespace), 1, -1), Lit(<<"#", ":">>), Rep(Ch(Whitespace), 0,
            -1), Grp(1, Rep(Ch(Upper \cup Digits \cup {"-"}), 1, -1)),
            WordBoundary>>)]
    >>

ssn_patterns ==
    <<
    \* self.ssn_patterns[0]
    \*   r'\b\d{3}-\d{2}-\d{4}\b'
        [src |->
            <<"\\", "b", "\\", "d", "{", "3", "}", "-", "\\", "d", "{", "2", "}",
            "-", "\\", "d", "{", "4", "}", "\\", "b">>,
         groups |-> 0,
         re |->
            Cat(<<WordBoundary, Rep(Ch(Digits), 3, 3), Ch({"-"}), Rep(Ch(Digits),
            2, 2), Ch({"-"}), Rep(Ch(Digits), 4, 4), WordBoundary>>)],
    \* self.ssn_patterns[1]
    \*   r'\b\d{3}\s\d{2}\s\d{4}\b'
        [src |->
            <<"\\", "b", "\\", "d", "{", "3", "}", "\\", "s", "\\", "d", "{",
            "2", "}", "\\", "s", "\\", "d", "{", "4", "}", "\\", "b">>,
         groups |-> 0,
         re |->
            Cat(<<WordBoundary, Rep(Ch(Digits), 3, 3), Ch(Whitespace),
            Rep(Ch(Digits), 2, 2), Ch(Whitespace), Rep(Ch(Digits), 4, 4),
            WordBoundary>>)],
    \* self.ssn_patterns[2]
    \*   r'\bSSN:\s*(\d{3}[-\s]?\d{2}[-\s]?\d{4})\b'
        [src |->
            <<"\\", "b", "S", "S", "N", ":", "\\", "s", "*", "(", "\\", "d", "{",
            "3", "}", "[", "-", "\\", "s", "]", "?", "\\", "d", "{", "2", "}",
            "[", "-", "\\", "s", "]", "?", "\\", "d", "{", "4", "}", ")", "\\",
            "b">>,
         groups |-> 1,
         re |->
            Cat(<<WordBoundary, Lit(<<"S", "S", "N", ":">>), Rep(Ch(Whitespace),
            0, -1), Grp(1, Cat(<<Rep(Ch(Digits), 3, 3),
            Rep(Ch(Whitespace \cup {"-"}), 0, 1), Rep(Ch(Digits), 2, 2),
            Rep(Ch(Whitespace \cup {"-"}), 0, 1), Rep(Ch(Digits), 4, 4)>>)),
            WordBoundary>>)],
    \* self.ssn_patterns[3]
    \*   r'\bSocial Security:\s*(\d{3}[-\s]?\d{2}[-\s]?\d{4})\b'
        [src |->
            <<"\\", "b", "S", "o", "c", "i", "a", "l", " ", "S", "e", "c", "u",
            "r", "i", "t", "y", ":", "\\", "s", "*", "(", "\\", "d", "{", "3",
            "}", "[", "-", "\\", "s", "]", "?", "\\", "d", "{", "2", "}", "[",
            "-", "\\", "s", "]", "?", "\\", "d", "{", "4", "}", ")", "\\", "b">>,
         groups |-> 1,
         re |->
            Cat(<<WordBoundary, Lit(<<"S", "o", "c", "i", "a", "l", " ", "S",
            "e", "c", "u", "r", "i", "t", "y", ":">>), Rep(Ch(Whitespace), 0,
            -1), Grp(1, Cat(<<Rep(Ch(Digits), 3, 3),
            Rep(Ch(Whitespace \cup {"-"}), 0, 1), Rep(Ch(Digits), 2, 2),
            Rep(Ch(Whitespace \cup {"-"}), 0, 1), Rep(Ch(Digits), 4, 4)>>)),
            WordBoundary>>)]
    >>

\* re.search(r'\d+', address_text)
AnyDigitsRe ==
    Rep(Ch(Digits), 1, -1)

\* re.search(r'[A-Z]{2}\s+\d{5}', address_text)
StateZipRe ==
    Cat(<<Rep(Ch(Upper), 2, 2), Rep(Ch(Whitespace), 1, -1), Rep(Ch(Digits),
    5, 5)>>)

\* re.match(r'\(\d{3}\)\s?\d{3}-\d{4}', phone_text)
FormattedPhoneRe ==
    Cat(<<Ch({"("}), Rep(Ch(Digits), 3, 3), Ch({")"}), Rep(Ch(Whitespace), 0,
    1), Rep(Ch(Digits), 3, 3), Ch({"-"}), Rep(Ch(Digits), 4, 4)>>)

(***************************************************************************)
(* PIIDetector: validators and confidence scores.  A confidence c stands   *)
(* for c / 1000.                                                           *)
(***************************************************************************)
\* re.sub(r'\D', '', s)
DigitsOnly(s) == SelectSeq(s, LAMBDA c : c \in Digits)

\* Mutant: any digit count from 10 up is accepted.
PhoneAtLeastTen(phone_text) == Len(DigitsOnly(phone_text)) >= 10

_is_valid_phone_number(phone_text) == Len(DigitsOnly(phone_text)) \in {10, 11}

\* Mutant: the area 666 is not rejected.
SsnValidWithout666(ssn_text) ==
    LET digits_only == DigitsOnly(ssn_text)
        area_number == SubSeq(digits_only, 1, 3)
    IN  IF Len(digits_only) # 9 THEN FALSE
        ELSE IF area_number = <<"0", "0", "0">> \/ area_number[1] = "9" THEN FALSE
        ELSE TRUE

_is_valid_ssn(ssn_text) ==
    LET digits_only == DigitsOnly(ssn_text)
        area_number == SubSeq(digits_only, 1, 3)
    IN  IF Len(digits_only) # 9 THEN FALSE
        ELSE IF area_number \in {<<"0", "0", "0">>, <<"6", "6", "6">>} \/ area_number[1] = "9" THEN FALSE
        ELSE TRUE

\* Mutant: the score is returned as it is.
NoClamp(confidence) == confidence

\* min(confidence, 1.0)
Clamp(confidence) == IF confidence < 1000 THEN confidence ELSE 1000

NameIndicators == {<<"M", "r", "|", "M", "r", "s", "|", "M", "s", "|", "D", "r">>, <<"N", "a", "m", "e", ":">>, <<"P", "a", "t", "i", "e", "n", "t", ":">>}

medical_keywords ==
    {<<"p", "a", "t", "i", "e", "n", "t">>, <<"d", "o", "c", "t", "o", "r">>, <<"m", "e", "d", "i", "c", "a", "l">>, <<"c", "h", "a", "r", "t">>,
     <<"r", "e", "c", "o", "r", "d">>, <<"d", "o", "b">>, <<"a", "g", "e">>}

_calculate_name_confidence(name_text, pattern, full_text, position) ==
    LET context_window ==
            Slice(full_text, IF position - 50 > 0 THEN position - 50 ELSE 0,
                  position + 50)
    IN  Clamp(500
              + (IF \E indicator \in NameIndicators : Contains(pattern, indicator)
                 THEN 300 ELSE 0)
              + (IF \E keyword \in medical_keywords :
                        Contains(LowerStr(context_window), keyword)
                 THEN 200 ELSE 0)
              + (IF Len(SplitWords(name_text, <<>>)) >= 2 THEN 100 ELSE 0))

_calculate_address_confidence(address_text, pattern) ==
    Clamp(600
          + (IF Search(AnyDigitsRe, address_text, FALSE) THEN 200 ELSE 0)
          + (IF Search(StateZipRe, address_text, FALSE) THEN 200 ELSE 0))

_calculate_phone_confidence(phone_text, pattern) ==
    Clamp(700
          + (IF Contains(pattern, <<"P", "h", "o", "n", "e", ":">>) \/ Contains(pattern, <<"T", "e", "l", ":">>)
             THEN 200 ELSE 0)
          + (IF MatchAt(FormattedPhoneRe, phone_text, 0, FALSE) # <<>> THEN 100 ELSE 0))

MedicalIdLabels == {<<"M", "R", "N", ":">>, <<"M", "e", "d", "i", "c", "a", "l", " ", "R", "e", "c", "o", "r", "d">>, <<"P", "a", "t", "i", "e", "n", "t", " ", "I", "D">>}

_calculate_medical_id_confidence(med_id_text, pattern) ==
    Clamp(800
          + (IF \E label \in MedicalIdLabels : Contains(pattern, label)
             THEN 100 ELSE 0))

_calculate_ssn_confidence(ssn_text, pattern) ==
    Clamp(900
          + (IF Contains(pattern, <<"S", "S", "N", ":">>) \/ Contains(pattern, <<"S", "o", "c", "i", "a", "l", " ", "S", "e", "c", "u", "r", "i", "t", "y">>)
             THEN 100 ELSE 0))

(***************************************************************************)
(* PIIDetector: the five detectors and detect_all_pii.                     *)
(***************************************************************************)
Matched(t, span) == Strip(Slice(t, span.start, span.end))

Matches(cands) ==
    LET kept == SelectSeq(cands, LAMBDA c : c.keep)
    IN  [i \in 1..Len(kept) |-> kept[i].match]

\* The matches list of detect_names before it is deduplicated.
NameCandidates(text) ==
    LET raw == AllMatches(name_patterns, text, TRUE)
        cand(x) ==
            LET span == IF x.pattern.groups > 0 /\ x.m.ge > x.m.gs
                        THEN GroupSpan(x.m) ELSE WholeSpan(x.m)
                name_text == Matched(text, span)
            IN  [keep |-> Len(name_text) >= 2,
                 match |-> PIIMatch(name_text, "name",
                               _calculate_name_confidence(name_text, x.pattern.src,
                                                          text, span.start),
                               span.start, span.end)]
    IN  Matches([i \in 1..Len(raw) |-> cand(raw[i])])

detect_names(text) == _deduplicate_matches(NameCandidates(text))

\* The matches list of detect_addresses before it is deduplicated.
AddressCandidates(text) ==
    LET raw == AllMatches(address_patterns, text, TRUE)
        cand(x) ==
            LET span == IF x.pattern.groups > 0 THEN GroupSpan(x.m) ELSE WholeSpan(x.m)
                address_text == Matched(text, span)
            IN  [keep |-> TRUE,
                 match |-> PIIMatch(address_text, "address",
                               _calculate_address_confidence(address_text, x.pattern.src),
                               span.start, span.end)]
    IN  Matches([i \in 1..Len(raw) |-> cand(raw[i])])

detect_addresses(text) == _deduplicate_matches(AddressCandidates(text))

\* The matches list of detect_phone_numbers before it is deduplicated.
PhoneCandidates(text) ==
    LET raw == AllMatches(phone_patterns, text, TRUE)
        cand(x) ==
            LET span == IF x.pattern.groups = 1 THEN GroupSpan(x.m) ELSE WholeSpan(x.m)
                phone_text == Matched(text, span)
            IN  [keep |-> _is_valid_phone_number(phone_text),
                 match |-> PIIMatch(phone_text, "phone",
                               _calculate_phone_confidence(phone_text, x.pattern.src),
                               span.start, span.end)]
    IN  Matches([i \in 1..Len(raw) |-> cand(raw[i])])

detect_phone_numbers(text) == _deduplicate_matches(PhoneCandidates(text))

\* The matches list of detect_medical_ids before it is deduplicated.
MedicalIdCandidates(text) ==
    LET raw == AllMatches(medical_id_patterns, text, TRUE)
        cand(x) ==
            LET span == IF x.pattern.groups > 0 THEN GroupSpan(x.m) ELSE WholeSpan(x.m)
                med_id_text == Matched(text, span)
            IN  [keep |-> TRUE,
                 match |-> PIIMatch(med_id_text, "medical_id",
                               _calculate_medical_id_confidence(med_id_text, x.pattern.src),
                               span.start, span.end)]
    IN  Matches([i \in 1..Len(raw) |-> cand(raw[i])])

detect_medical_ids(text) == _deduplicate_matches(MedicalIdCandidates(text))

\* The matches list of detect_ssns before it is deduplicated.
SsnCandidates(text) ==
    LET raw == AllMatches(ssn_patterns, text, FALSE)
        cand(x) ==
            LET span == IF x.pattern.groups > 0 THEN GroupSpan(x.m) ELSE WholeSpan(x.m)
                ssn_text == Matched(text, span)
            IN  [keep |-> _is_valid_ssn(ssn_text),
                 match |-> PIIMatch(ssn_text, "ssn",
                               _calculate_ssn_confidence(ssn_text, x.pattern.src),
                               span.start, span.end)]
    IN  Matches([i \in 1..Len(raw) |-> cand(raw[i])])

detect_ssns(text) == _deduplicate_matches(SsnCandidates(text))

\* detect_all_pii as a function of the text.
detect_all_pii(text) ==
    SortByStart(detect_names(text) \o detect_addresses(text)
                    \o detect_phone_numbers(text) \o detect_medical_ids(text)
                    \o detect_ssns(text))

(***************************************************************************)
(* OCREngine.  A confidence c stands for c / ConfUnit: fragment            *)
(* confidences are hundredths, and the mean of up to MaxFrags of them is   *)
(* exact in units of 1 / (100 * lcm(1..MaxFrags)).                         *)
(***************************************************************************)
FragLcm == LcmUpTo(MaxFrags)

ConfUnit == 100 * FragLcm

\* np.mean(confidences) if confidences else 0.0
MeanConf(confs) ==
    IF confs = <<>> THEN 0 ELSE (SumSeq(confs) * FragLcm) \div Len(confs)

\* The fragment floors: conf > 30 (Tesseract, 0..100) and confidence > 0.3 (EasyOCR).
TesseractFloor == 30

EasyOcrFloor == 30

\* confidence < 0.3 in extract_with_confidence
LowConfidence(c) == c * 10 < 3 * ConfUnit

\* What a backend library call does on one image: it raises, or it reports
\* fragments [text, conf] (conf in hundredths).
RaiseOutcome == [kind |-> "raise", frags |-> <<>>]

FragTexts == {<<>>, <<"J", "0">>}

FragConfs == {30, 31, 90}

Fragments == [text : FragTexts, conf : FragConfs]

DataOutcomes == {[kind |-> "data", frags |-> f] : f \in SeqsUpTo(Fragments, MaxFrags)}

\* The value of a backend method: it returns (text, conf) or lets an exception out.
Returned(text, conf) == [raised |-> FALSE, text |-> text, conf |-> conf]

Propagated == [raised |-> TRUE, text |-> <<>>, conf |-> 0]

\* Mutant: no except clause, the exception leaves the method.
CatchNothing(r) == r

\* except Exception as e: ... return "", 0.0
CatchAll(r) == IF r.raised THEN Returned(<<>>, 0) ELSE r

\* Mutant: a fragment exactly at the floor is kept.
KeptFragsAtFloor(frags, floor) ==
    SelectSeq(frags, LAMBDA f : f.conf >= floor)

KeptFrags(frags, floor) ==
    SelectSeq(frags, LAMBDA f : f.conf > floor)

\* The try body of extract_text_tesseract.
TesseractBody(outcome) ==
    IF outcome.kind = "raise" THEN Propagated
    ELSE LET stripped == [i \in 1..Len(outcome.frags) |->
                             [text |-> Strip(outcome.frags[i].text),
                              conf |-> outcome.frags[i].conf]]
             kept == SelectSeq(stripped,
                         LAMBDA f : f.text # <<>> /\ f.conf > TesseractFloor)
         IN  Returned(JoinSpace([i \in 1..Len(kept) |-> kept[i].text]),
                      MeanConf([i \in 1..Len(kept) |-> kept[i].conf]))

extract_text_tesseract(outcome) == CatchAll(TesseractBody(outcome))

\* The try body of extract_text_easyocr.
EasyOcrBody(reader, outcome) ==
    IF reader = "None" THEN Returned(<<>>, 0)
    ELSE IF outcome.kind = "raise" THEN Propagated
    ELSE LET kept == KeptFrags(outcome.frags, EasyOcrFloor)
         IN  Returned(JoinSpace([i \in 1..Len(kept) |-> kept[i].text]),
                      MeanConf([i \in 1..Len(kept) |-> kept[i].conf]))

extract_text_easyocr(reader, outcome) == CatchAll(EasyOcrBody(reader, outcome))

\* replacements = {'|': 'I', '0': 'O', '5': 'S', '1': 'l'}, in insertion order.
Replacements == << <<"|", "I">>, <<"0", "O">>, <<"5", "S">>, <<"1", "l">> >>

\* re.match(r'^[A-Za-z0-9|]+$', word) and len(word) > 1
LooksLikeText(word) ==
    /\ Len(word) > 1
    /\ \A i \in 1..Len(word) : word[i] \in Upper \cup Lower \cup Digits \cup {"|"}

RECURSIVE ApplyReplacements(_, _)
ApplyReplacements(word, k) ==
    IF k > Len(Replacements) THEN word
    ELSE LET old == Replacements[k][1]
             new == Replacements[k][2]
         IN  ApplyReplacements(
                 IF old \in Range(word) /\ ~IsDigitStr(word)
                 THEN ReplaceChar(word, old, new) ELSE word,
                 k + 1)

_clean_extracted_text(text) ==
    IF text = <<>> THEN <<>>
    ELSE LET words == SplitWords(Strip(text), <<>>)
         IN  JoinSpace([i \in 1..Len(words) |->
                 IF LooksLikeText(words[i]) THEN ApplyReplacements(words[i], 1)
                 ELSE words[i]])

OtherEngine(e) == IF e = "tesseract" THEN "easyocr" ELSE "tesseract"

\* The condition under which extract_with_confidence runs the other backend.
FallbackTriggered(preferred, text, confidence, reader) ==
    IF preferred = "tesseract"
    THEN (text = <<>> \/ LowConfidence(confidence)) /\ reader # "None"
    ELSE text = <<>> \/ LowConfidence(confidence)

\* Mutant: a fallback of equal confidence is preferred to the primary.
FallbackBetterOrEqual(fallback_conf, confidence) == fallback_conf >= confidence

\* if fallback_conf > confidence
FallbackBetter(fallback_conf, confidence) == fallback_conf > confidence

\* One call of a backend method by extract_with_confidence.
RunBackend(name, reader, outcome) ==
    IF name = "tesseract" THEN extract_text_tesseract(outcome)
    ELSE extract_text_easyocr(reader, outcome)

\* What the library can do: a missing Tesseract binary makes every
\* image_to_data call raise; an absent reader is never called.
Outcomes(name, eng) ==
    IF name = "tesseract"
    THEN (IF eng.tesseract_ok THEN DataOutcomes \cup {RaiseOutcome} ELSE {RaiseOutcome})
    ELSE (IF eng.easyocr_reader = "None" THEN {RaiseOutcome}
          ELSE DataOutcomes \cup {RaiseOutcome})

NoMetadata ==
    [engines_tried |-> <<>>, primary_engine |-> "none", fallback_used |-> FALSE,
     selected_engine |-> "unset", original_length |-> -1, cleaned_length |-> -1]

NoLocals ==
    [text |-> <<>>, confidence |-> 0, fallback_text |-> <<>>, fallback_conf |-> 0,
     metadata |-> NoMetadata]

NoResult == [text |-> <<>>, confidence |-> 0, metadata |-> NoMetadata]

NoEngine == [preferred_engine |-> "none", easyocr_reader |-> "None", tesseract_ok |-> FALSE]

OcrIdle ==
    /\ engine = NoEngine
    /\ ocr = NoLocals
    /\ backend_log = <<>>
    /\ ocr_result = NoResult

DedupIdle ==
    /\ matches = <<>>
    /\ deduplicated = <<>>
    /\ idx = 0
    /\ lastStep = "none"

(***************************************************************************)
(* TextCleaner (src/src/utils/text_cleaner.py).                            *)
(***************************************************************************)
\* The replacement template of re.sub expanded for one match.
Expand(repl, t, m) ==
    Flatten([i \in 1..Len(repl) |->
        IF repl[i].k = "lit" THEN <<repl[i].c>>
        ELSE Slice(t, m.groups[2 * repl[i].n], m.groups[2 * repl[i].n + 1])])

\* re.sub(pattern, repl, t): the text from offset pos on, every
\* non-overlapping match replaced, left to right.
RECURSIVE SubFrom(_, _, _, _, _)
SubFrom(re, repl, t, pos, ic) ==
    IF pos >= Len(t) THEN <<>>
    ELSE LET m == MatchAt(re, t, pos, ic)
         IN  IF m = <<>> \/ m[1].end = pos
             THEN <<t[pos + 1]>> \o SubFrom(re, repl, t, pos + 1, ic)
             ELSE Expand(repl, t, m[1]) \o SubFrom(re, repl, t, m[1].end, ic)

Sub(re, repl, t, ic) == SubFrom(re, repl, t, 0, ic)

\* The replacement ' '
OneSpace == <<[k |-> "lit", c |-> " "]>>

\* r'\s+'
WhitespaceRun == Rep(Ch(Whitespace), 1, -1)

ocr_corrections ==
    <<
    \* self.ocr_corrections, entry 1
    \*   r'\b0(?=[A-Za-z])': 'O'
        [re |-> Cat(<<WordBoundary, Ch({"0"}), Look(Ch(Upper \cup Lower))>>), repl
        |-> <<[k |-> "lit", c |-> "O"]>>],
    \* self.ocr_corrections, entry 2
    \*   r'(?<=[A-Za-z])0\b': 'o'
        [re |-> Cat(<<LookBehind(Ch(Upper \cup Lower)), Ch({"0"}),
        WordBoundary>>), repl |-> <<[k |-> "lit", c |-> "o"]>>],
    \* self.ocr_corrections, entry 3
    \*   r'\b1(?=[A-Za-z])': 'I'
        [re |-> Cat(<<WordBoundary, Ch({"1"}), Look(Ch(Upper \cup Lower))>>), repl
        |-> <<[k |-> "lit", c |-> "I"]>>],
    \* self.ocr_corrections, entry 4
    \*   r'(?<=[A-Za-z])1(?=[A-Za-z])': 'l'
        [re |-> Cat(<<LookBehind(Ch(Upper \cup Lower)), Ch({"1"}), Look(Ch(Upper
        \cup Lower))>>), repl |-> <<[k |-> "lit", c |-> "l"]>>],
    \* self.ocr_corrections, entry 5
    \*   r'\b5(?=[A-Za-z])': 'S'
        [re |-> Cat(<<WordBoundary, Ch({"5"}), Look(Ch(Upper \cup Lower))>>), repl
        |-> <<[k |-> "lit", c |-> "S"]>>],
    \* self.ocr_corrections, entry 6
    \*   r'(?<=[A-Za-z])5(?=[A-Za-z])': 's'
        [re |-> Cat(<<LookBehind(Ch(Upper \cup Lower)), Ch({"5"}), Look(Ch(Upper
        \cup Lower))>>), repl |-> <<[k |-> "lit", c |-> "s"]>>],
    \* self.ocr_corrections, entry 7
    \*   r'\|': 'I'
        [re |-> Ch({"|"}), repl |-> <<[k |-> "lit", c |-> "I"]>>],
    \* self.ocr_corrections, entry 8
    \*   r'(?<=[a-z])rn(?=[a-z])': 'm'
        [re |-> Cat(<<LookBehind(Ch(Lower)), Lit(<<"r", "n">>),
        Look(Ch(Lower))>>), repl |-> <<[k |-> "lit", c |-> "m"]>>],
    \* self.ocr_corrections, entry 9
    \*   r'vv': 'w'
        [re |-> Lit(<<"v", "v">>), repl |-> <<[k |-> "lit", c |-> "w"]>>],
    \* self.ocr_corrections, entry 10
    \*   r'\bmg\b': 'mg'
        [re |-> Cat(<<WordBoundary, Lit(<<"m", "g">>), WordBoundary>>), repl |->
        <<[k |-> "lit", c |-> "m"], [k |-> "lit", c |-> "g"]>>],
    \* self.ocr_corrections, entry 11
    \*   r'\bMG\b': 'mg'
        [re |-> Cat(<<WordBoundary, Lit(<<"M", "G">>), WordBoundary>>), repl |->
        <<[k |-> "lit", c |-> "m"], [k |-> "lit", c |-> "g"]>>],
    \* self.ocr_corrections, entry 12
    \*   r'\bml\b': 'ml'
        [re |-> Cat(<<WordBoundary, Lit(<<"m", "l">>), WordBoundary>>), repl |->
        <<[k |-> "lit", c |-> "m"], [k |-> "lit", c |-> "l"]>>],
    \* self.ocr_corrections, entry 13
    \*   r'\bML\b': 'ml'
        [re |-> Cat(<<WordBoundary, Lit(<<"M", "L">>), WordBoundary>>), repl |->
        <<[k |-> "lit", c |-> "m"], [k |-> "lit", c |-> "l"]>>],
    \* self.ocr_corrections, entry 14
    \*   r'\btab\b': 'tab'
        [re |-> Cat(<<WordBoundary, Lit(<<"t", "a", "b">>), WordBoundary>>), repl
        |-> <<[k |-> "lit", c |-> "t"], [k |-> "lit", c |-> "a"], [k |-> "lit", c
        |-> "b"]>>],
    \* self.ocr_corrections, entry 15
    \*   r'\bTAB\b': 'tab'
        [re |-> Cat(<<WordBoundary, Lit(<<"T", "A", "B">>), WordBoundary>>), repl
        |-> <<[k |-> "lit", c |-> "t"], [k |-> "lit", c |-> "a"], [k |-> "lit", c
        |-> "b"]>>]
    >>

medical_patterns ==
    <<
    \* clean_medical_text: medical_patterns, entry 1
    \*   r'\b(\d+)\s*mg\b': '\\1mg'
        [re |-> Cat(<<WordBoundary, Grp(1, Rep(Ch(Digits), 1, -1)),
        Rep(Ch(Whitespace), 0, -1), Lit(<<"m", "g">>), WordBoundary>>), repl |->
        <<[k |-> "ref", n |-> 1], [k |-> "lit", c |-> "m"], [k |-> "lit", c |->
        "g"]>>],
    \* clean_medical_text: medical_patterns, entry 2
    \*   r'\b(\d+)\s*ml\b': '\\1ml'
        [re |-> Cat(<<WordBoundary, Grp(1, Rep(Ch(Digits), 1, -1)),
        Rep(Ch(Whitespace), 0, -1), Lit(<<"m", "l">>), WordBoundary>>), repl |->
        <<[k |-> "ref", n |-> 1], [k |-> "lit", c |-> "m"], [k |-> "lit", c |->
        "l"]>>],
    \* clean_medical_text: medical_patterns, entry 3
    \*   r'\b(\d+)\s*tab\b': '\\1 tab'
        [re |-> Cat(<<WordBoundary, Grp(1, Rep(Ch(Digits), 1, -1)),
        Rep(Ch(Whitespace), 0, -1), Lit(<<"t", "a", "b">>), WordBoundary>>), repl
        |-> <<[k |-> "ref", n |-> 1], [k |-> "lit", c |-> " "], [k |-> "lit", c
        |-> "t"], [k |-> "lit", c |-> "a"], [k |-> "lit", c |-> "b"]>>],
    \* clean_medical_text: medical_patterns, entry 4
    \*   r'\b(\d+)\s*x\s*(\d+)\b': '\\1x\\2'
        [re |-> Cat(<<WordBoundary, Grp(1, Rep(Ch(Digits), 1, -1)),
        Rep(Ch(Whitespace), 0, -1), Ch({"x"}), Rep(Ch(Whitespace), 0, -1), Grp(2,
        Rep(Ch(Digits), 1, -1)), WordBoundary>>), repl |-> <<[k |-> "ref", n |->
        1], [k |-> "lit", c |-> "x"], [k |-> "ref", n |-> 2]>>],
    \* clean_medical_text: medical_patterns, entry 5
    \*   r'\b(\d+)/(\d+)\b': '\\1/\\2'
        [re |-> Cat(<<WordBoundary, Grp(1, Rep(Ch(Digits), 1, -1)), Ch({"/"}),
        Grp(2, Rep(Ch(Digits), 1, -1)), WordBoundary>>), repl |-> <<[k |-> "ref",
        n |-> 1], [k |-> "lit", c |-> "/"], [k |-> "ref", n |-> 2]>>],
    \* clean_medical_text: medical_patterns, entry 6
    \*   r'\b(\d{1,2})\s*:\s*(\d{2})\s*(am|pm)\b': '\\1:\\2\\3'
        [re |-> Cat(<<WordBoundary, Grp(1, Rep(Ch(Digits), 1, 2)),
        Rep(Ch(Whitespace), 0, -1), Ch({":"}), Rep(Ch(Whitespace), 0, -1), Grp(2,
        Rep(Ch(Digits), 2, 2)), Rep(Ch(Whitespace), 0, -1), Grp(3,
        Alt(<<Lit(<<"a", "m">>), Lit(<<"p", "m">>)>>)), WordBoundary>>), repl |->
        <<[k |-> "ref", n |-> 1], [k |-> "lit", c |-> ":"], [k |-> "ref", n |->
        2], [k |-> "ref", n |-> 3]>>],
    \* clean_medical_text: medical_patterns, entry 7
    \*   r'\b(\d{1,2})\s*:\s*(\d{2})\b': '\\1:\\2'
        [re |-> Cat(<<WordBoundary, Grp(1, Rep(Ch(Digits), 1, 2)),
        Rep(Ch(Whitespace), 0, -1), Ch({":"}), Rep(Ch(Whitespace), 0, -1), Grp(2,
        Rep(Ch(Digits), 2, 2)), WordBoundary>>), repl |-> <<[k |-> "ref", n |->
        1], [k |-> "lit", c |-> ":"], [k |-> "ref", n |-> 2]>>],
    \* clean_medical_text: medical_patterns, entry 8
    \*   r'\b(\d{1,2})\s+(am|pm)\b': '\\1\\2'
        [re |-> Cat(<<WordBoundary, Grp(1, Rep(Ch(Digits), 1, 2)),
        Rep(Ch(Whitespace), 1, -1), Grp(2, Alt(<<Lit(<<"a", "m">>), Lit(<<"p",
        "m">>)>>)), WordBoundary>>), repl |-> <<[k |-> "ref", n |-> 1], [k |->
        "ref", n |-> 2]>>]
    >>

artifact_patterns ==
    <<
    \* remove_artifacts: artifact_patterns[0]
    \*   r'\s[^\w\s]\s'
        Cat(<<Ch(Whitespace), NotCh(WordChars \cup Whitespace), Ch(Whitespace)>>),
    \* remove_artifacts: artifact_patterns[1]
    \*   r'\b[A-Za-z]\s+[A-Za-z]\s+[A-Za-z]\b'
        Cat(<<WordBoundary, Ch(Upper \cup Lower), Rep(Ch(Whitespace), 1, -1),
        Ch(Upper \cup Lower), Rep(Ch(Whitespace), 1, -1), Ch(Upper \cup Lower),
        WordBoundary>>),
    \* remove_artifacts: artifact_patterns[2]
    \*   r'_{2,}'
        Rep(Ch({"_"}), 2, -1),
    \* remove_artifacts: artifact_patterns[3]
    \*   r'-{3,}'
        Rep(Ch({"-"}), 3, -1),
    \* remove_artifacts: artifact_patterns[4]
    \*   r'\.{3,}'
        Rep(Ch({"."}), 3, -1)
    >>

structure_patterns ==
    <<
    \* assess_text_quality: structure_patterns[0]
    \*   r'\d+mg'
        Cat(<<Rep(Ch(Digits), 1, -1), Lit(<<"m", "g">>)>>),
    \* assess_text_quality: structure_patterns[1]
    \*   r'\d+ml'
        Cat(<<Rep(Ch(Digits), 1, -1), Lit(<<"m", "l">>)>>),
    \* assess_text_quality: structure_patterns[2]
    \*   r'\d+tab'
        Cat(<<Rep(Ch(Digits), 1, -1), Lit(<<"t", "a", "b">>)>>),
    \* assess_text_quality: structure_patterns[3]
    \*   r'\d{1,2}:\d{2}'
        Cat(<<Rep(Ch(Digits), 1, 2), Ch({":"}), Rep(Ch(Digits), 2, 2)>>),
    \* assess_text_quality: structure_patterns[4]
    \*   r'\d{1,2}/\d{1,2}'
        Cat(<<Rep(Ch(Digits), 1, 2), Ch({"/"}), Rep(Ch(Digits), 1, 2)>>)
    >>

\* self.medical_terms
medical_terms ==
    {<<"a", "f", "t", "e", "r">>, <<"a", "m", "l", "o", "d", "i", "p", "i",
    "n", "e">>, <<"a", "m", "o", "x", "i", "c", "i", "l", "l", "i", "n">>,
    <<"a", "s", "p", "i", "r", "i", "n">>, <<"a", "t", "o", "r", "v", "a",
    "s", "t", "a", "t", "i", "n">>, <<"b", "e", "f", "o", "r", "e">>, <<"b",
    "e", "n", "d", "r", "o", "f", "l", "u", "m", "e", "t", "h", "i", "a", "z",
    "i", "d", "e">>, <<"b", "i", "s", "o", "p", "r", "o", "l", "o", "l">>,
    <<"c", "a", "p", "s", "u", "l", "e">>, <<"c", "l", "i", "n", "i", "c">>,
    <<"c", "l", "o", "p", "i", "d", "o", "g", "r", "e", "l">>, <<"c", "r",
    "e", "a", "m">>, <<"d", "a", "i", "l", "y">>, <<"d", "i", "a", "g", "n",
    "o", "s", "i", "s">>, <<"d", "o", "c", "t", "o", "r">>, <<"d", "o", "s",
    "a", "g", "e">>, <<"d", "o", "s", "e">>, <<"d", "r", "o", "p", "s">>,
    <<"e", "m", "p", "t", "y">>, <<"e", "v", "e", "n", "i", "n", "g">>, <<"f",
    "o", "o", "d">>, <<"f", "u", "r", "o", "s", "e", "m", "i", "d", "e">>,
    <<"h", "o", "s", "p", "i", "t", "a", "l">>, <<"i", "b", "u", "p", "r",
    "o", "f", "e", "n">>, <<"i", "n", "h", "a", "l", "e", "r">>, <<"i", "n",
    "j", "e", "c", "t", "i", "o", "n">>, <<"l", "a", "n", "s", "o", "p", "r",
    "a", "z", "o", "l", "e">>, <<"l", "e", "v", "o", "t", "h", "y", "r", "o",
    "x", "i", "n", "e">>, <<"m", "e", "a", "l", "s">>, <<"m", "e", "d", "i",
    "c", "a", "t", "i", "o", "n">>, <<"m", "e", "t", "f", "o", "r", "m", "i",
    "n">>, <<"m", "o", "n", "t", "h", "l", "y">>, <<"m", "o", "r", "n", "i",
    "n", "g">>, <<"n", "i", "g", "h", "t">>, <<"n", "u", "r", "s", "e">>,
    <<"o", "i", "n", "t", "m", "e", "n", "t">>, <<"o", "m", "e", "p", "r",
    "a", "z", "o", "l", "e">>, <<"p", "a", "r", "a", "c", "e", "t", "a", "m",
    "o", "l">>, <<"p", "a", "t", "c", "h">>, <<"p", "a", "t", "i", "e", "n",
    "t">>, <<"p", "h", "y", "s", "i", "c", "i", "a", "n">>, <<"p", "r", "e",
    "d", "n", "i", "s", "o", "l", "o", "n", "e">>, <<"p", "r", "e", "s", "c",
    "r", "i", "p", "t", "i", "o", "n">>, <<"r", "a", "m", "i", "p", "r", "i",
    "l">>, <<"s", "a", "l", "b", "u", "t", "a", "m", "o", "l">>, <<"s", "i",
    "m", "v", "a", "s", "t", "a", "t", "i", "n">>, <<"s", "p", "r", "a",
    "y">>, <<"s", "t", "o", "m", "a", "c", "h">>, <<"s", "u", "p", "p", "o",
    "s", "i", "t", "o", "r", "y">>, <<"s", "y", "r", "u", "p">>, <<"t", "a",
    "b", "l", "e", "t">>, <<"t", "h", "e", "r", "a", "p", "y">>, <<"t", "h",
    "r", "i", "c", "e">>, <<"t", "r", "e", "a", "t", "m", "e", "n", "t">>,
    <<"t", "w", "i", "c", "e">>, <<"w", "a", "r", "f", "a", "r", "i", "n">>,
    <<"w", "e", "e", "k", "l", "y">>}

normalize_whitespace(text) ==
    IF text = <<>> THEN <<>>
    ELSE Strip(Sub(WhitespaceRun, OneSpace, text, FALSE))

\* for pattern, replacement in rules: text = re.sub(pattern, replacement, text)
RECURSIVE ApplyRules(_, _, _, _)
ApplyRules(rules, i, t, ic) ==
    IF i > Len(rules) THEN t
    ELSE ApplyRules(rules, i + 1, Sub(rules[i].re, rules[i].repl, t, ic), ic)

fix_common_ocr_errors(text) ==
    IF text = <<>> THEN <<>> ELSE ApplyRules(ocr_corrections, 1, text, FALSE)

clean_medical_text(text) ==
    IF text = <<>> THEN <<>> ELSE ApplyRules(medical_patterns, 1, text, TRUE)

remove_artifacts(text) ==
    IF text = <<>> THEN <<>>
    ELSE LET rules == [i \in 1..Len(artifact_patterns) |->
                          [re |-> artifact_patterns[i], repl |-> OneSpace]]
             cleaned == ApplyRules(rules, 1, text, FALSE)
         IN  Strip(Sub(WhitespaceRun, OneSpace, cleaned, FALSE))

\* The early return of assess_text_quality
NoQuality == [early |-> TRUE, num |-> 0, den |-> 1]

\* assess_text_quality: quality_score is num / den, and the other metrics
\* are kept as the integers they are computed from.
assess_text_quality(original_text, cleaned_text) ==
    IF original_text = <<>> \/ cleaned_text = <<>> THEN NoQuality
    ELSE LET original_words == Len(SplitWords(original_text, <<>>))
             cleaned_words == Len(SplitWords(cleaned_text, <<>>))
             original_len == Len(original_text)
             cleaned_len == Len(cleaned_text)
             medical_terms_found ==
                 Cardinality({term \in medical_terms :
                                 Contains(LowerStr(cleaned_text), LowerStr(term))})
             medical_tenths ==
                 IF medical_terms_found < 10 THEN medical_terms_found ELSE 10
             structure_matches ==
                 Cardinality({i \in 1..Len(structure_patterns) :
                                 Search(structure_patterns[i], cleaned_text, TRUE)})
             \* word_retention = wr_num / wr_den (0 if there are no words)
             wr_num == IF original_words > 0 THEN cleaned_words ELSE 0
             wr_den == IF original_words > 0 THEN original_words ELSE 1
             den == 100 * wr_den * original_len * Len(structure_patterns)
         IN  [early |-> FALSE,
              \* 0.3 wr + 0.2 (1 - char_reduction) + 0.3 medical + 0.2 structure
              num |-> 30 * wr_num * original_len * Len(structure_patterns)
                      + 20 * cleaned_len * wr_den * Len(structure_patterns)
                      + 3 * medical_tenths * wr_den * original_len
                            * Len(structure_patterns)
                      + 20 * structure_matches * wr_den * original_len,
              den |-> den,
              cleaned_words |-> cleaned_words,
              original_words |-> original_words,
              cleaned_len |-> cleaned_len,
              original_len |-> original_len,
              medical_terms_found |-> medical_terms_found,
              structure_matches |-> structure_matches]

\* clean_text: the cleaned text with the steps and the quality metrics of its
\* metadata.
clean_text(text) ==
    IF text = <<>>
    THEN [text |-> <<>>, steps |-> <<>>, quality |-> NoQuality]
    ELSE LET step1 == normalize_whitespace(text)
             step2 == fix_common_ocr_errors(step1)
             step3 == clean_medical_text(step2)
             step4 == remove_artifacts(step3)
             step5 == normalize_whitespace(step4)
         IN  [text |-> step5,
              steps |-> <<"whitespace_normalization", "ocr_error_correction",
                          "medical_text_cleaning", "artifact_removal">>,
              quality |-> assess_text_quality(text, step5)]

(***************************************************************************)
(* PIIDetector on texts, and its validators on candidate strings.          *)
(***************************************************************************)
Labels ==
    {<<>>, <<"P", "a", "t", "i", "e", "n", "t", ":", " ">>, <<"N", "a", "m", "e", ":", " ">>, <<"D", "r", ".", " ">>,
     <<"P", "h", "o", "n", "e", ":", " ">>, <<"T", "e", "l", ":", " ">>, <<"C", "e", "l", "l", ":", " ">>,
     <<"S", "S", "N", ":", " ">>, <<"S", "o", "c", "i", "a", "l", " ", "S", "e", "c", "u", "r", "i", "t", "y", ":", " ">>,
     <<"M", "R", "N", ":", " ">>, <<"M", "R", "#", " ">>, <<"P", "a", "t", "i", "e", "n", "t", " ", "I", "D", ":", " ">>, <<"C", "h", "a", "r", "t", " ", "#", ":", " ">>,
     <<"A", "d", "d", "r", "e", "s", "s", ":", " ">>}

Values ==
    {<<"J", "o", "h", "n", " ", "D", "o", "e">>, <<"A", "m", "y", " ", "L", "i">>, <<"t", "a", "k", "e", " ", "2", " ", "t", "a", "b">>,
     <<"o", "n", "e", " ", "t", "a", "b", " ", "d", "a", "i", "l", "y">>,
     <<"(", "5", "5", "5", ")", " ", "1", "2", "3", "-", "4", "5", "6", "7">>,
     <<"5", "5", "5", "-", "1", "2", "3", "-", "4", "5", "6", "7">>,
     <<"5", "5", "5", "-", "1", "2", "3", "-", "4", "5", "6">>,
     <<"1", "-", "5", "5", "5", "-", "1", "2", "3", "-", "4", "5", "6", "7">>,
     <<"1", "2", "3", "-", "4", "5", "-", "6", "7", "8", "9">>,
     <<"1", "2", "3", " ", "4", "5", " ", "6", "7", "8", "9">>,
     <<"1", "2", "3", "4", "5", "6", "7", "8", "9">>,
     <<"0", "0", "0", "-", "4", "5", "-", "6", "7", "8", "9">>,
     <<"6", "6", "6", "-", "4", "5", "-", "6", "7", "8", "9">>,
     <<"9", "2", "3", "-", "4", "5", "-", "6", "7", "8", "9">>,
     <<"1", "2", "3", "-", "0", "0", "-", "6", "7", "8", "9">>,
     <<"1", "2", "3", "-", "4", "5", "-", "0", "0", "0", "0">>,
     <<"A", "B", "C", "1", "2", "3", "4", "5", "6">>,
     <<"1", "2", " ", "O", "a", "k", " ", "S", "t">>,
     <<"1", "2", " ", "O", "a", "k", " ", "S", "t", ",", " ", "T", "r", "o", "y", ",", " ", "N", "Y", " ", "1", "2", "1", "8", "0">>,
     <<"T", "r", "o", "y", ",", " ", "N", "Y", " ", "1", "2", "1", "8", "0">>}

LeadFields ==
    {<<"P", "a", "t", "i", "e", "n", "t", ":", " ", "J", "o", "h", "n", " ", "D", "o", "e">>, <<"D", "r", ".", " ", "J", "o", "h", "n", " ", "D", "o", "e">>, <<"J", "o", "h", "n", " ", "D", "o", "e">>}

TailFields ==
    {<<"P", "h", "o", "n", "e", ":", " ", "(", "5", "5", "5", ")", " ", "1", "2", "3", "-", "4", "5", "6", "7">>,
     <<"S", "S", "N", ":", " ", "1", "2", "3", "-", "4", "5", "-", "6", "7", "8", "9">>,
     <<"M", "R", "N", ":", " ", "A", "B", "C", "1", "2", "3", "4", "5", "6">>,
     <<"D", "O", "B", " ", "1", "9", "9", "0">>}

\* "Patient: John Doe, Phone: (555) 123-4567, SSN: 123-45-6789"
ScenarioText ==
    <<"P", "a", "t", "i", "e", "n", "t", ":", " ", "J", "o", "h", "n", " ", "D", "o", "e", ",", " ", "P", "h", "o", "n", "e", ":", " ", "(", "5", "5", "5", ")", " ", "1", "2", "3", "-", "4", "5", "6", "7", ",", " ", "S", "S", "N", ":", " ", "1", "2", "3", "-", "4", "5", "-", "6", "7", "8", "9">>

Texts ==
    {<<>>, ScenarioText}
        \cup {l \o v : l \in Labels, v \in Values}
        \cup {f \o <<",", " ">> \o g : f \in LeadFields, g \in TailFields}

\* Strings handed to _is_valid_ssn: area, group and serial of 3, 2 and 3..5
\* digits with one kind of separator, and the examples of the specification.
SsnSeparators == {<<>>, <<"-">>, <<" ">>}

SsnExamples ==
    {<<"1", "2", "3", "-", "4", "5", "-", "6", "7", "8", "9">>,
     <<"0", "0", "0", "-", "4", "5", "-", "6", "7", "8", "9">>,
     <<"6", "6", "6", "-", "4", "5", "-", "6", "7", "8", "9">>,
     <<"9", "2", "3", "-", "4", "5", "-", "6", "7", "8", "9">>,
     <<"1", "2", "3", "4", "5", "6", "7", "8">>, <<"1", "2", "3", "4", "5", "6", "7", "8", "9", "0">>}

SsnStrings ==
    SsnExamples \cup
    {a \o s \o g \o s \o n :
        a \in [1..3 -> {"0", "1", "6", "9"}], s \in SsnSeparators,
        g \in [1..2 -> {"0", "5"}],
        n \in UNION {[1..k -> {"0", "7"}] : k \in 3..5}}

\* Strings handed to _is_valid_phone_number: 7 to 13 digits.
PhoneStrings ==
    {p \o a \o s \o m \o s \o n :
        p \in {<<>>, <<"1", " ">>, <<"+", "1", "-">>, <<"0", "1", " ">>},
        a \in {<<"5", "5", "5">>, <<"(", "5", "5", "5", ")">>, <<"5", "5">>},
        s \in {<<>>, <<"-">>, <<".">>},
        m \in {<<"1", "2", "3">>, <<"1", "2">>},
        n \in {<<"4", "5", "6", "7">>, <<"4", "5", "6">>, <<"4", "5", "6", "7", "8">>, <<"4", "5", "6", "7", "8", "9">>}}

NoVerdict == [fn |-> "none", valid |-> FALSE]

PiiIdle ==
    /\ input_text = <<>>
    /\ all_matches = <<>>
    /\ scored = <<>>
    /\ candidate = <<>>
    /\ verdict = NoVerdict

InitPii ==
    /\ mode = "pii"
    /\ \/ /\ pc = "names"
          /\ input_text \in Texts
          /\ candidate = <<>>
       \/ /\ pc = "validate"
          /\ input_text = <<>>
          /\ candidate \in SsnStrings \cup PhoneStrings
    /\ all_matches = <<>>
    /\ scored = <<>>
    /\ verdict = NoVerdict
    /\ DedupIdle
    /\ OcrIdle
    /\ RestIdle

\* all_matches.extend(self.detect_names(input_text))
DetectNames ==
    /\ mode = "pii" /\ pc = "names"
    /\ scored' = scored \o NameCandidates(input_text)
    /\ all_matches' = all_matches \o detect_names(input_text)
    /\ pc' = "addresses"
    /\ UNCHANGED <<mode, input_text, candidate, verdict, dedupVars, ocrVars, restVars>>

\* all_matches.extend(self.detect_addresses(input_text))
DetectAddresses ==
    /\ mode = "pii" /\ pc = "addresses"
    /\ scored' = scored \o AddressCandidates(input_text)
    /\ all_matches' = all_matches \o detect_addresses(input_text)
    /\ pc' = "phones"
    /\ UNCHANGED <<mode, input_text, candidate, verdict, dedupVars, ocrVars, restVars>>

\* all_matches.extend(self.detect_phone_numbers(input_text))
DetectPhoneNumbers ==
    /\ mode = "pii" /\ pc = "phones"
    /\ scored' = scored \o PhoneCandidates(input_text)
    /\ all_matches' = all_matches \o detect_phone_numbers(input_text)
    /\ pc' = "medical_ids"
    /\ UNCHANGED <<mode, input_text, candidate, verdict, dedupVars, ocrVars, restVars>>

\* all_matches.extend(self.detect_medical_ids(input_text))
DetectMedicalIds ==
    /\ mode = "pii" /\ pc = "medical_ids"
    /\ scored' = scored \o MedicalIdCandidates(input_text)
    /\ all_matches' = all_matches \o detect_medical_ids(input_text)
    /\ pc' = "ssns"
    /\ UNCHANGED <<mode, input_text, candidate, verdict, dedupVars, ocrVars, restVars>>

\* all_matches.extend(self.detect_ssns(input_text))
DetectSsns ==
    /\ mode = "pii" /\ pc = "ssns"
    /\ scored' = scored \o SsnCandidates(input_text)
    /\ all_matches' = all_matches \o detect_ssns(input_text)
    /\ pc' = "sort"
    /\ UNCHANGED <<mode, input_text, candidate, verdict, dedupVars, ocrVars, restVars>>

\* all_matches.sort(key=lambda x: x.start_pos); return all_matches
DetectReturn ==
    /\ mode = "pii" /\ pc = "sort"
    /\ all_matches' = SortByStart(all_matches)
    /\ pc' = "done"
    /\ UNCHANGED <<mode, input_text, scored, candidate, verdict, dedupVars, ocrVars, restVars>>

\* self._is_valid_ssn(candidate)
ValidateSsn ==
    /\ mode = "pii" /\ pc = "validate"
    /\ verdict' = [fn |-> "ssn", valid |-> _is_valid_ssn(candidate)]
    /\ pc' = "validated"
    /\ UNCHANGED <<mode, input_text, candidate, all_matches, scored, dedupVars, ocrVars, restVars>>

\* self._is_valid_phone_number(candidate)
ValidatePhone ==
    /\ mode = "pii" /\ pc = "validate"
    /\ verdict' = [fn |-> "phone", valid |-> _is_valid_phone_number(candidate)]
    /\ pc' = "validated"
    /\ UNCHANGED <<mode, input_text, candidate, all_matches, scored, dedupVars, ocrVars, restVars>>

NextPii ==
    \/ DetectNames \/ DetectAddresses \/ DetectPhoneNumbers \/ DetectMedicalIds
    \/ DetectSsns \/ DetectReturn \/ ValidateSsn \/ ValidatePhone

SpecPii == InitPii /\ [][NextPii]_vars

(***************************************************************************)
(* _deduplicate_matches step by step, on arbitrary candidate lists.        *)
(***************************************************************************)
DedupConfs == {500, 800, 900}

DedupSpans == {p \in (0..MaxPos) \X (0..MaxPos) : p[1] < p[2]}

DedupCands ==
    {PIIMatch(<<>>, "name", c, p[1], p[2]) : c \in DedupConfs, p \in DedupSpans}

InitDedup ==
    /\ mode = "dedup"
    /\ pc = "call"
    /\ matches \in SeqsUpTo(DedupCands, MaxCands)
    /\ deduplicated = <<>>
    /\ idx = 0
    /\ lastStep = "none"
    /\ OcrIdle
    /\ PiiIdle
    /\ RestIdle

\* if not matches: return matches
DedupReturnEmpty ==
    /\ mode = "dedup" /\ pc = "call" /\ matches = <<>>
    /\ pc' = "done"
    /\ UNCHANGED <<mode, matches, deduplicated, idx, lastStep, ocrVars, piiVars, restVars>>

\* matches.sort(key=lambda x: x.start_pos); deduplicated = []
DedupSort ==
    /\ mode = "dedup" /\ pc = "call" /\ matches # <<>>
    /\ matches' = SortByStart(matches)
    /\ deduplicated' = <<>>
    /\ idx' = 0
    /\ pc' = "walk"
    /\ UNCHANGED <<mode, lastStep, ocrVars, piiVars, restVars>>

\* for match in matches: ... (one iteration)
DedupStep ==
    /\ mode = "dedup" /\ pc = "walk" /\ idx < Len(matches)
    /\ LET match == matches[idx + 1]
           k == FirstOverlap(deduplicated, match)
       IN  /\ deduplicated' = DedupIter(deduplicated, match)
           /\ lastStep' = IF k = 0 THEN "added"
                          ELSE IF CandidateWins(match, deduplicated[k])
                               THEN "replaced" ELSE "dropped"
    /\ idx' = idx + 1
    /\ UNCHANGED <<mode, pc, matches, ocrVars, piiVars, restVars>>

\* return deduplicated
DedupReturn ==
    /\ mode = "dedup" /\ pc = "walk" /\ idx = Len(matches)
    /\ pc' = "done"
    /\ UNCHANGED <<mode, matches, deduplicated, idx, lastStep, ocrVars, piiVars, restVars>>

NextDedup == DedupReturnEmpty \/ DedupSort \/ DedupStep \/ DedupReturn

SpecDedup == InitDedup /\ [][NextDedup]_vars

(***************************************************************************)
(* OCREngine.extract_with_confidence on an engine as constructed.          *)
(***************************************************************************)
Engines ==
    [preferred_engine : {"tesseract", "easyocr"},
     easyocr_reader : {"reader", "None"},
     tesseract_ok : BOOLEAN]

\* The state after OCREngine(preferred_engine): _initialize_engines has set
\* easyocr_reader, and has found the Tesseract binary or not.
InitOcr ==
    /\ mode = "ocr"
    /\ pc = "idle"
    /\ engine \in Engines
    /\ ocr = NoLocals
    /\ backend_log = <<>>
    /\ ocr_result = NoResult
    /\ DedupIdle
    /\ PiiIdle
    /\ RestIdle

\* The branch of extract_with_confidence that runs: 'tesseract', or else.
PrimaryName(eng) == IF eng.preferred_engine = "tesseract" THEN "tesseract" ELSE "easyocr"

\* A backend call that failed inside: the library raised, or there is no reader.
CallFailed(name, eng, outcome) ==
    \/ outcome.kind = "raise"
    \/ name = "easyocr" /\ eng.easyocr_reader = "None"

\* The backend method gets as far as its library call: image_to_data is
\* called whatever _initialize_engines found; readtext only with a reader.
LibraryCalled(name, eng) ==
    name = "tesseract" \/ eng.easyocr_reader # "None"

LogEntry(name, eng, outcome, r) ==
    [engine |-> name, failed |-> CallFailed(name, eng, outcome),
     library_called |-> LibraryCalled(name, eng), frags |-> outcome.frags,
     raised |-> r.raised, text |-> r.text, conf |-> r.conf]

\* metadata = {'engines_tried': [], 'primary_engine': ..., 'fallback_used': False}
OcrCall ==
    /\ mode = "ocr" /\ pc = "idle"
    /\ ocr' = [NoLocals EXCEPT !.metadata.primary_engine = engine.preferred_engine]
    /\ backend_log' = <<>>
    /\ pc' = "primary"
    /\ UNCHANGED <<mode, engine, ocr_result, dedupVars, piiVars, restVars>>

\* text, confidence = self.extract_text_<preferred>(image)
OcrPrimary ==
    /\ mode = "ocr" /\ pc = "primary"
    /\ \E outcome \in Outcomes(PrimaryName(engine), engine) :
          LET name == PrimaryName(engine)
              r == RunBackend(name, engine.easyocr_reader, outcome)
          IN  /\ backend_log' = Append(backend_log, LogEntry(name, engine, outcome, r))
              /\ IF r.raised
                 THEN pc' = "raised" /\ UNCHANGED ocr
                 ELSE /\ pc' = "decide"
                      /\ ocr' = [ocr EXCEPT !.text = r.text, !.confidence = r.conf,
                                     !.metadata.engines_tried = Append(@, name)]
    /\ UNCHANGED <<mode, engine, ocr_result, dedupVars, piiVars, restVars>>

\* The fallback branch: run the other backend and keep the better result.
OcrFallback ==
    /\ mode = "ocr" /\ pc = "decide"
    /\ FallbackTriggered(engine.preferred_engine, ocr.text, ocr.confidence,
                         engine.easyocr_reader)
    /\ \E outcome \in Outcomes(OtherEngine(PrimaryName(engine)), engine) :
          LET name == OtherEngine(PrimaryName(engine))
              r == RunBackend(name, engine.easyocr_reader, outcome)
              better == FallbackBetter(r.conf, ocr.confidence)
          IN  /\ backend_log' = Append(backend_log, LogEntry(name, engine, outcome, r))
              /\ IF r.raised
                 THEN pc' = "raised" /\ UNCHANGED ocr
                 ELSE /\ pc' = "clean"
                      /\ ocr' = [ocr EXCEPT
                            !.fallback_text = r.text,
                            !.fallback_conf = r.conf,
                            !.text = IF better THEN r.text ELSE @,
                            !.confidence = IF better THEN r.conf ELSE @,
                            !.metadata.engines_tried = Append(@, name),
                            !.metadata.fallback_used = TRUE,
                            !.metadata.selected_engine =
                                IF better THEN name ELSE PrimaryName(engine)]
    /\ UNCHANGED <<mode, engine, ocr_result, dedupVars, piiVars, restVars>>

\* else: metadata['selected_engine'] = <preferred>
OcrNoFallback ==
    /\ mode = "ocr" /\ pc = "decide"
    /\ ~FallbackTriggered(engine.preferred_engine, ocr.text, ocr.confidence,
                          engine.easyocr_reader)
    /\ ocr' = [ocr EXCEPT !.metadata.selected_engine = PrimaryName(engine)]
    /\ pc' = "clean"
    /\ UNCHANGED <<mode, engine, backend_log, ocr_result, dedupVars, piiVars, restVars>>

\* cleaned_text = self._clean_extracted_text(text); return cleaned_text, confidence, metadata
OcrReturn ==
    /\ mode = "ocr" /\ pc = "clean"
    /\ LET cleaned_text == _clean_extracted_text(ocr.text)
           metadata == [ocr.metadata EXCEPT !.original_length = Len(ocr.text),
                                            !.cleaned_length = Len(cleaned_text)]
       IN  /\ ocr' = [ocr EXCEPT !.metadata = metadata]
           /\ ocr_result' = [text |-> cleaned_text, confidence |-> ocr.confidence,
                             metadata |-> metadata]
    /\ pc' = "done"
    /\ UNCHANGED <<mode, engine, backend_log, dedupVars, piiVars, restVars>>

\* The engine is kept: the next image is processed by the same instance.
OcrNextImage ==
    /\ mode = "ocr" /\ pc = "done"
    /\ pc' = "idle"
    /\ ocr' = NoLocals
    /\ backend_log' = <<>>
    /\ ocr_result' = NoResult
    /\ UNCHANGED <<mode, engine, dedupVars, piiVars, restVars>>

NextOcr ==
    OcrCall \/ OcrPrimary \/ OcrFallback \/ OcrNoFallback \/ OcrReturn \/ OcrNextImage

SpecOcr == InitOcr /\ [][NextOcr]_vars

(***************************************************************************)
(* OutputGenerator.generate_redacted_image                                 *)
(* (src/src/output/output_generator.py).  The image copy is the sequence   *)
(* of boxes drawn on it.                                                   *)
(***************************************************************************)
ValidMethods == {"black_box", "blur", "pixelate"}

\* _apply_redaction: the ValueError, or the image with one more box.
_apply_redaction(image, pii_match, method) ==
    IF method \notin ValidMethods
    THEN [raised |-> TRUE, error |-> "Invalid redaction method", image |-> image]
    ELSE [raised |-> FALSE, error |-> "",
          image |-> Append(image, [method |-> method,
                                   start_pos |-> pii_match.start_pos,
                                   length |-> Len(pii_match.text)])]

\* The call generate_redacted_image(original_image_path, pii_matches,
\* output_path, redaction_method) about to run; io is what the file system
\* does to it.
RedactCall(exists, pii_matches, method, io) ==
    [method |-> method, pii_matches |-> pii_matches, exists |-> exists,
     io |-> io, at |-> "check", i |-> 0, image |-> <<>>, written |-> FALSE,
     error |-> ""]

RedactRaise(r, error) == [r EXCEPT !.at = "raised", !.error = error]

\* One step of generate_redacted_image.
RedactStep(r) ==
    CASE r.at = "check" ->
            IF ~r.exists THEN RedactRaise(r, "Original image not found")
            ELSE [r EXCEPT !.at = "open"]
      [] r.at = "open" ->
            IF r.io = "open" THEN RedactRaise(r, "cannot identify image file")
            ELSE [r EXCEPT !.at = "loop"]
      [] r.at = "loop" ->
            IF r.i = Len(r.pii_matches) THEN [r EXCEPT !.at = "save"]
            ELSE LET a == _apply_redaction(r.image, r.pii_matches[r.i + 1], r.method)
                 IN  IF a.raised THEN RedactRaise(r, a.error)
                     ELSE [r EXCEPT !.image = a.image, !.i = r.i + 1]
      [] r.at = "save" ->
            IF r.io = "save" THEN RedactRaise(r, "cannot write output file")
            ELSE [r EXCEPT !.written = TRUE, !.at = "returned"]
      [] OTHER -> r

RECURSIVE RedactRun(_)
RedactRun(r) == IF r.at \in {"returned", "raised"} THEN r ELSE RedactRun(RedactStep(r))

generate_redacted_image(exists, pii_matches, method, io) ==
    RedactRun(RedactCall(exists, pii_matches, method, io))

(***************************************************************************)
(* OCRPIIPipeline (src/src/pipeline/ocr_pii_pipeline.py).                  *)
(***************************************************************************)
MaxBatch == 2       \* image paths handed to one process_batch call

\* dict[k] = v
Put(m, k, v) == [x \in DOMAIN m \cup {k} |-> IF x = k THEN v ELSE m[x]]

EndsWith(s, suffix) ==
    Len(s) >= Len(suffix) /\ SubSeq(s, Len(s) - Len(suffix) + 1, Len(s)) = suffix

\* image_path.lower().endswith(('.jpg', '.jpeg'))
IsJpeg(image_path) ==
    \/ EndsWith(LowerStr(image_path), <<".", "j", "p", "g">>)
    \/ EndsWith(LowerStr(image_path), <<".", "j", "p", "e", "g">>)

\* Path(image_path).stem, for a file name without directories
Stem(image_path) ==
    LET dots == {i \in 2..Len(image_path) : image_path[i] = "."}
    IN  IF dots = {} THEN image_path
        ELSE SubSeq(image_path, 1, (CHOOSE i \in dots : \A j \in dots : j <= i) - 1)

\* os.path.join(output_dir, f"redacted_{Path(image_path).stem}.jpg")
RedactedPath(output_dir, image_path) ==
    output_dir \o <<"/">> \o <<"r", "e", "d", "a", "c", "t", "e", "d", "_">> \o Stem(image_path) \o <<".", "j", "p", "g">>

MandatoryStages == <<"preprocessing", "ocr", "text_cleaning", "pii_detection">>

\* Mutant: the OCR stage is entered again after text cleaning.
StageAfterRetrying(stage) ==
    CASE stage = "preprocessing" -> "ocr"
      [] stage = "ocr" -> "text_cleaning"
      [] stage = "text_cleaning" -> "ocr"
      [] stage = "pii_detection" -> "redaction"

\* The stage process_image goes on to when stage has succeeded.
StageAfter(stage) ==
    CASE stage = "preprocessing" -> "ocr"
      [] stage = "ocr" -> "text_cleaning"
      [] stage = "text_cleaning" -> "pii_detection"
      [] stage = "pii_detection" -> "redaction"

\* output_dir is None, or a string (empty strings are falsy).
NoOutputDir == [given |-> FALSE, path |-> <<>>]

OutputDir(path) == [given |-> TRUE, path |-> path]

\* Mutant: the output directory is not looked at.
RedactionWithoutOutputDir(enable_redaction, pii_matches, output_dir) ==
    enable_redaction /\ pii_matches # <<>>

\* if enable_redaction and pii_matches and output_dir:
RedactionWanted(enable_redaction, pii_matches, output_dir) ==
    enable_redaction /\ pii_matches # <<>> /\ output_dir.given /\ output_dir.path # <<>>

\* Mutant: every error is tagged with the stage of the outer handler.
ErrorResultTaggedPipeline(stage, error_message, metadata) ==
    [returned |-> TRUE,
     original_text |-> <<>>,
     pii_matches |-> <<>>,
     processing_metadata |->
         Put(Put(Put(metadata, "success", FALSE), "error_stage", "pipeline"),
             "error_message", error_message),
     redacted_image_path |-> <<>>]

\* _create_error_result; redacted_image_path None is the empty path.
_create_error_result(stage, error_message, metadata) ==
    [returned |-> TRUE,
     original_text |-> <<>>,
     pii_matches |-> <<>>,
     processing_metadata |->
         Put(Put(Put(metadata, "success", FALSE), "error_stage", stage),
             "error_message", error_message),
     redacted_image_path |-> <<>>]

\* processing_metadata[stage] = entry; processing_stages.append(stage)
StageDone(metadata, stage, entry) ==
    Put(Put(metadata, stage, entry),
        "processing_stages", Append(metadata["processing_stages"], stage))

\* The locals of process_image at its first line.  The clock advances by one
\* for every stage call; started is the history of the stages entered.
NewProc(image_path) ==
    [image_path |-> image_path,
     clock |-> 0,
     processing_metadata |->
         [k \in {"input_file", "pipeline_version", "processing_stages"} |->
             CASE k = "input_file" -> image_path
               [] k = "pipeline_version" -> "1.0.0"
               [] k = "processing_stages" -> <<>>],
     extracted_text |-> <<>>,
     ocr_confidence |-> 0,
     cleaned_text |-> <<>>,
     pii_matches |-> <<>>,
     redacted_image_path |-> <<>>,
     started |-> <<>>]

\* Mutant: a failed image ends the batch.
MoreImagesUnlessFailed(image_paths, done, result) ==
    done < Len(image_paths) /\ result.processing_metadata["success"]

\* for i, image_path in enumerate(image_paths, 1): there is a next image.
MoreImages(image_paths, done, result) == done < Len(image_paths)

(***************************************************************************)
(* The images of the model: what is on disk under each path, and what the  *)
(* stages do with it.                                                      *)
(***************************************************************************)
ImagePaths == {<<"a", ".", "j", "p", "g">>, <<"b", ".", "J", "P", "E", "G">>, <<"c", ".", "p", "n", "g">>}

\* Texts the recogniser returns for an image.
OcrTexts == {<<>>, <<"S", "S", "N", ":", " ", " ", "1", "2", "3", "-", "4", "5", "-", "6", "7", "8", "9">>}

\* clean_text, assess_text_quality and detect_all_pii on these texts,
\* computed once.
CleanedTexts == [t \in OcrTexts |-> clean_text(t).text]

QualityMetrics == [t \in OcrTexts |-> assess_text_quality(t, CleanedTexts[t])]

DetectedPii == [c \in {CleanedTexts[t] : t \in OcrTexts} |-> detect_all_pii(c)]

StageError(stage) == <<"error raised in", stage>>

Missing ==
    [exists |-> FALSE, fails |-> "none", message |-> <<>>, ocr_text |-> <<>>,
     redact_io |-> "ok"]

Failing(stage) ==
    [exists |-> TRUE, fails |-> stage, message |-> StageError(stage),
     ocr_text |-> CHOOSE t \in OcrTexts : t # <<>>, redact_io |-> "ok"]

Readable(ocr_text, redact_io) ==
    [exists |-> TRUE, fails |-> "none", message |-> <<>>, ocr_text |-> ocr_text,
     redact_io |-> redact_io]

\* What can be under a path: nothing, a file that is not a JPEG by name, or
\* a JPEG on which a stage raises or all stages run.
Scenarios(image_path) ==
    IF ~IsJpeg(image_path) THEN {Missing, Readable(<<>>, "ok")}
    ELSE {Missing}
         \cup {Failing(MandatoryStages[i]) : i \in 1..Len(MandatoryStages)}
         \cup {Readable(t, io) : t \in OcrTexts, io \in {"ok", "makedirs", "save"}}

AllScenarios == UNION {Scenarios(p) : p \in ImagePaths}

Requests ==
    {[kind |-> k, image_paths |-> ps, enable_redaction |-> e, output_dir |-> d,
      redaction_method |-> m] :
        k \in {"single", "batch"},
        ps \in SeqsUpTo(ImagePaths, MaxBatch),
        e \in BOOLEAN,
        d \in {NoOutputDir, OutputDir(<<>>), OutputDir(<<"o", "u", "t">>)},
        m \in {"black_box", "sepia"}}

InitPipeline ==
    /\ mode = "pipeline"
    /\ pc = "idle"
    /\ request \in {r \in Requests : r.kind = "single" => Len(r.image_paths) = 1}
    /\ fs \in {f \in [Range(request.image_paths) -> AllScenarios] :
                  \A p \in DOMAIN f : f[p] \in Scenarios(p)}
    /\ proc = [image_path |-> <<>>]
    /\ proc_result = [returned |-> FALSE]
    /\ results = [done |-> 0, dict |-> <<>>]
    /\ DedupIdle /\ OcrIdle /\ PiiIdle
    /\ CleanerIdle /\ RedactIdle /\ PreprocessIdle

PipeUnchanged ==
    UNCHANGED <<mode, fs, request, detVars, cleanVars, redactVars, prepVars>>

\* process_image(image_path, ...) is called: by the user, or by the loop of
\* process_batch for its next path.
CallProcessImage ==
    /\ mode = "pipeline" /\ pc = "idle"
    /\ results.done < Len(request.image_paths)
    /\ proc' = NewProc(request.image_paths[results.done + 1])
    /\ proc_result' = [returned |-> FALSE]
    /\ pc' = "validate"
    /\ UNCHANGED results
    /\ PipeUnchanged

\* Mutant: the outer handler lets the exception out of process_image.
OuterHandlerReraising(error_message, metadata) ==
    [pc |-> "raised",
     result |-> [returned |-> FALSE, error_message |-> error_message]]

\* except Exception as e: return self._create_error_result('pipeline', ...)
\* (lines 210-212): process_image returns, it does not raise.
OuterHandler(error_message, metadata) ==
    [pc |-> "returned",
     result |-> _create_error_result("pipeline", error_message, metadata)]

\* Lines 70-76: the two validation errors are raised inside the outer try.
ValidateInput ==
    /\ mode = "pipeline" /\ pc = "validate"
    /\ IF ~fs[proc.image_path].exists
       THEN \E h \in {OuterHandler(<<"Input image not found", proc.image_path>>,
                                    proc.processing_metadata)} :
                proc_result' = h.result /\ pc' = h.pc
       ELSE IF ~IsJpeg(proc.image_path)
       THEN \E h \in {OuterHandler(<<"Invalid file format", proc.image_path>>,
                                    proc.processing_metadata)} :
                proc_result' = h.result /\ pc' = h.pc
       ELSE /\ proc_result' = proc_result
            /\ pc' = "preprocessing"
    /\ UNCHANGED <<proc, results>>
    /\ PipeUnchanged

\* A mandatory stage: entered, then either its exception handler returns the
\* error result or its entry is written and the next stage follows.
RunStage(stage, entry, assigned) ==
    LET sc == fs[proc.image_path]
    IN  IF sc.fails = stage
        THEN /\ proc' = [proc EXCEPT !.started = Append(@, stage),
                                     !.clock = @ + 1]
             /\ proc_result' = _create_error_result(stage, sc.message,
                                                    proc.processing_metadata)
             /\ pc' = "returned"
        ELSE /\ proc' = [assigned EXCEPT
                            !.started = Append(@, stage),
                            !.clock = @ + 1,
                            !.processing_metadata = StageDone(@, stage, entry)]
             /\ proc_result' = proc_result
             /\ pc' = StageAfter(stage)

StagePreprocessing ==
    /\ mode = "pipeline" /\ pc = "preprocessing"
    /\ RunStage("preprocessing",
                [duration_seconds |-> 1, success |-> TRUE],
                proc)
    /\ UNCHANGED results
    /\ PipeUnchanged

StageOcr ==
    /\ mode = "pipeline" /\ pc = "ocr"
    /\ LET text == fs[proc.image_path].ocr_text
       IN  RunStage("ocr",
                    [duration_seconds |-> 1, text_length |-> Len(text),
                     success |-> TRUE],
                    [proc EXCEPT !.extracted_text = text])
    /\ UNCHANGED results
    /\ PipeUnchanged

\* quality_score is text_quality_metrics.get('overall_quality', 0.0): the
\* metrics have no such key, so it is 0.0.
StageTextCleaning ==
    /\ mode = "pipeline" /\ pc = "text_cleaning"
    /\ \E cleaned_text \in {CleanedTexts[proc.extracted_text]},
          metrics \in {QualityMetrics[proc.extracted_text]} :
           RunStage("text_cleaning",
                    [duration_seconds |-> 1, quality_metrics |-> metrics,
                     quality_score |-> 0,
                     original_length |-> Len(proc.extracted_text),
                     cleaned_length |-> Len(cleaned_text), success |-> TRUE],
                    [proc EXCEPT !.cleaned_text = cleaned_text])
    /\ UNCHANGED results
    /\ PipeUnchanged

StagePiiDetection ==
    /\ mode = "pipeline" /\ pc = "pii_detection"
    /\ \E pii_matches \in {DetectedPii[proc.cleaned_text]} :
           RunStage("pii_detection",
                    [duration_seconds |-> 1, matches_found |-> Len(pii_matches),
                     types_detected |->
                         {pii_matches[i].pii_type : i \in 1..Len(pii_matches)},
                     success |-> TRUE],
                    [proc EXCEPT !.pii_matches = pii_matches])
    /\ UNCHANGED results
    /\ PipeUnchanged

\* Stage 5, attempted: os.makedirs, then generate_redacted_image; an
\* exception leaves the entry of lines 189-192.
StageRedaction ==
    /\ mode = "pipeline" /\ pc = "redaction"
    /\ RedactionWanted(request.enable_redaction, proc.pii_matches, request.output_dir)
    /\ LET sc == fs[proc.image_path]
           entered == [proc EXCEPT !.started = Append(@, "redaction"), !.clock = @ + 1]
           path == RedactedPath(request.output_dir.path, proc.image_path)
           run == generate_redacted_image(sc.exists, proc.pii_matches,
                                          request.redaction_method, sc.redact_io)
       IN  IF sc.redact_io = "makedirs"
           THEN proc' = [entered EXCEPT !.processing_metadata =
                            Put(@, "redaction",
                                [success |-> FALSE, error |-> "cannot create directory"])]
           ELSE IF run.at = "raised"
           THEN proc' = [entered EXCEPT
                            !.redacted_image_path = path,
                            !.processing_metadata =
                                Put(@, "redaction",
                                    [success |-> FALSE, error |-> run.error])]
           ELSE proc' = [entered EXCEPT
                            !.redacted_image_path = path,
                            !.processing_metadata =
                                StageDone(@, "redaction",
                                    [duration_seconds |-> 1,
                                     method |-> request.redaction_method,
                                     output_path |-> path,
                                     pii_redacted |-> Len(proc.pii_matches),
                                     success |-> TRUE])]
    /\ pc' = "assemble"
    /\ UNCHANGED <<proc_result, results>>
    /\ PipeUnchanged

\* Stage 5, not attempted.
SkipRedaction ==
    /\ mode = "pipeline" /\ pc = "redaction"
    /\ ~RedactionWanted(request.enable_redaction, proc.pii_matches, request.output_dir)
    /\ pc' = "assemble"
    /\ UNCHANGED <<proc, proc_result, results>>
    /\ PipeUnchanged

\* Lines 194-208.
ReturnResult ==
    /\ mode = "pipeline" /\ pc = "assemble"
    /\ LET metadata == Put(Put(proc.processing_metadata,
                               "total_duration_seconds", proc.clock),
                           "success", TRUE)
       IN  /\ proc' = [proc EXCEPT !.processing_metadata = metadata]
           /\ proc_result' = [returned |-> TRUE,
                              original_text |-> proc.cleaned_text,
                              pii_matches |-> proc.pii_matches,
                              processing_metadata |-> metadata,
                              redacted_image_path |-> proc.redacted_image_path]
    /\ pc' = "returned"
    /\ UNCHANGED results
    /\ PipeUnchanged

\* process_batch, one iteration (lines 235-253): results[image_path] is the
\* result of process_image, or, when process_image raised, the error result
\* of the handler; then the loop goes on.
BatchRecord ==
    /\ mode = "pipeline" /\ pc \in {"returned", "raised"}
    /\ request.kind = "batch"
    /\ \E result \in {IF pc = "raised"
                       THEN _create_error_result("batch_processing",
                                proc_result.error_message,
                                [k \in {"input_file"} |-> proc.image_path])
                       ELSE proc_result} :
          /\ results' = [done |-> results.done + 1,
                         dict |-> Put(results.dict, proc.image_path, result)]
          /\ pc' = IF MoreImages(request.image_paths, results.done + 1, result)
                   THEN "idle" ELSE "batch_done"
    /\ UNCHANGED <<proc, proc_result>>
    /\ PipeUnchanged

\* process_batch([]) returns the empty dictionary.
BatchReturnEmpty ==
    /\ mode = "pipeline" /\ pc = "idle"
    /\ request.kind = "batch" /\ request.image_paths = <<>>
    /\ pc' = "batch_done"
    /\ UNCHANGED <<proc, proc_result, results>>
    /\ PipeUnchanged

NextPipeline ==
    \/ CallProcessImage \/ ValidateInput
    \/ StagePreprocessing \/ StageOcr \/ StageTextCleaning \/ StagePiiDetection
    \/ StageRedaction \/ SkipRedaction \/ ReturnResult
    \/ BatchRecord \/ BatchReturnEmpty

SpecPipeline == InitPipeline /\ [][NextPipeline]_vars

(***************************************************************************)
(* TextCleaner called by a client (SpecClean): a method is applied to a    *)
(* text, and then once more to what it returned.                           *)
(***************************************************************************)
MaxTokens == 4

MaxPairTokens == 2

\* Fragments the texts handed to the cleaner are made of.
CleanTokens ==
    {<<"a">>, <<" ", ".">>, <<" ", "a">>, <<"_", "_", "a">>, <<"0">>, <<"|">>}

CleanInputs == {Flatten(ts) : ts \in SeqsUpTo(CleanTokens, MaxTokens)}

PairInputs == {Flatten(ts) : ts \in SeqsUpTo(CleanTokens, MaxPairTokens)}

TextMethods ==
    {"normalize_whitespace", "fix_common_ocr_errors", "clean_medical_text",
     "remove_artifacts", "clean_text"}

CleanCalls ==
    {[fn |-> f, text |-> t, cleaned_text |-> <<>>] :
        f \in TextMethods, t \in CleanInputs}
    \cup {[fn |-> "assess_text_quality", text |-> o, cleaned_text |-> c] :
            o \in PairInputs, c \in PairInputs}

InitClean ==
    /\ mode = "clean"
    /\ pc = "call"
    /\ clean_call \in CleanCalls
    /\ clean_returns = <<>>
    /\ DedupIdle /\ OcrIdle /\ PiiIdle /\ PipelineIdle /\ RedactIdle
    /\ PreprocessIdle

CleanUnchanged ==
    UNCHANGED <<mode, clean_call, detVars, pipeVars, redactVars, prepVars>>

\* The text the next application of a text method gets: the text of the
\* call, then the text returned by the application before.
CleanArgument ==
    IF clean_returns = <<>> THEN clean_call.text
    ELSE IF clean_call.fn = "clean_text"
         THEN clean_returns[Len(clean_returns)].text
         ELSE clean_returns[Len(clean_returns)]

\* The caller has the method to apply, once or once more.
CleanPending(fn) ==
    /\ mode = "clean"
    /\ pc \in {"call", "applied"}
    /\ clean_call.fn = fn

CleanReturn(out) ==
    /\ clean_returns' = Append(clean_returns, out)
    /\ pc' = IF pc = "call" THEN "applied" ELSE "reapplied"
    /\ CleanUnchanged

CallNormalizeWhitespace ==
    /\ CleanPending("normalize_whitespace")
    /\ \E out \in {normalize_whitespace(CleanArgument)} : CleanReturn(out)

CallFixCommonOcrErrors ==
    /\ CleanPending("fix_common_ocr_errors")
    /\ \E out \in {fix_common_ocr_errors(CleanArgument)} : CleanReturn(out)

CallCleanMedicalText ==
    /\ CleanPending("clean_medical_text")
    /\ \E out \in {clean_medical_text(CleanArgument)} : CleanReturn(out)

CallRemoveArtifacts ==
    /\ CleanPending("remove_artifacts")
    /\ \E out \in {remove_artifacts(CleanArgument)} : CleanReturn(out)

CallCleanText ==
    /\ CleanPending("clean_text")
    /\ \E out \in {clean_text(CleanArgument)} : CleanReturn(out)

CallAssessTextQuality ==
    /\ mode = "clean"
    /\ pc = "call"
    /\ clean_call.fn = "assess_text_quality"
    /\ \E out \in {assess_text_quality(clean_call.text, clean_call.cleaned_text)} :
           clean_returns' = <<out>>
    /\ pc' = "assessed"
    /\ CleanUnchanged

NextClean ==
    \/ CallNormalizeWhitespace
    \/ CallFixCommonOcrErrors
    \/ CallCleanMedicalText
    \/ CallRemoveArtifacts
    \/ CallCleanText
    \/ CallAssessTextQuality

SpecClean == InitClean /\ [][NextClean]_vars

(***************************************************************************)
(* OutputGenerator.generate_redacted_image called by a client (SpecRedact).*)
(***************************************************************************)
MaxRedactMatches == 2

RedactMatches ==
    {[text |-> <<"A", "m", "y">>, pii_type |-> "name", confidence |-> 800,
      start_pos |-> 0, end_pos |-> 3],
     [text |-> <<"1", "2", "3", "-", "4", "5", "-", "6", "7", "8", "9">>,
      pii_type |-> "ssn", confidence |-> 900, start_pos |-> 105, end_pos |-> 116]}

RedactMethods == ValidMethods \cup {"sepia"}

InitRedact ==
    /\ mode = "redact"
    /\ pc = "call"
    /\ redaction \in {RedactCall(e, ms, m, io) :
                        e \in BOOLEAN,
                        ms \in SeqsUpTo(RedactMatches, MaxRedactMatches),
                        m \in RedactMethods,
                        io \in {"ok", "open", "save"}}
    /\ DedupIdle /\ OcrIdle /\ PiiIdle /\ CleanerIdle /\ PipelineIdle
    /\ PreprocessIdle

RedactUnchanged == UNCHANGED <<mode, pc, detVars, cleanVars, pipeVars, prepVars>>

\* if not os.path.exists(original_image_path): raise FileNotFoundError
CheckOriginalExists ==
    /\ mode = "redact"
    /\ redaction.at = "check"
    /\ redaction' = RedactStep(redaction)
    /\ RedactUnchanged

\* with Image.open(original_image_path) as img: ... redacted_img = img.copy()
OpenAndCopy ==
    /\ mode = "redact"
    /\ redaction.at = "open"
    /\ redaction' = RedactStep(redaction)
    /\ RedactUnchanged

\* for pii_match in pii_matches: one iteration, or the end of the loop
RedactNextMatch ==
    /\ mode = "redact"
    /\ redaction.at = "loop"
    /\ redaction' = RedactStep(redaction)
    /\ RedactUnchanged

\* os.makedirs(...); redacted_img.save(output_path, 'JPEG', quality=95)
SaveRedacted ==
    /\ mode = "redact"
    /\ redaction.at = "save"
    /\ redaction' = RedactStep(redaction)
    /\ RedactUnchanged

NextRedact ==
    \/ CheckOriginalExists
    \/ OpenAndCopy
    \/ RedactNextMatch
    \/ SaveRedacted

SpecRedact == InitRedact /\ [][NextRedact]_vars

(***************************************************************************)
(* ImagePreprocessor (src/preprocessing/image_preprocessor.py).            *)
(* An image is its shape and the operations that have changed its pixels   *)
(* since it was read.  Angles are in tenths of a degree.                   *)
(***************************************************************************)
SkewThreshold == 5

\* The median line angle HoughLines finds on the image; 0 stands for an image
\* without lines, a straight one, and a detection that raised.
SkewAngles == {-20, -6, -5, -3, 0, 3, 5, 6, 20}

ImageFiles == {"jpeg", "not_jpeg", "unreadable"}

Abs(x) == IF x < 0 THEN 0 - x ELSE x

\* load_image: raises ValueError for a file that is not JPEG, and for one
\* cv2.imread cannot read.
load_image(file) ==
    IF file = "jpeg"
    THEN [raised |-> FALSE, image |-> [shape |-> <<4, 6, 3>>, applied |-> <<>>]]
    ELSE [raised |-> TRUE, image |-> [shape |-> <<>>, applied |-> <<>>]]

\* enhance_contrast: CLAHE on the L channel; except Exception: the warning is
\* logged and the image is returned as it came.
enhance_contrast(image, fails) ==
    IF fails THEN image
    ELSE [image EXCEPT !.applied = Append(@, "clahe")]

\* reduce_noise: bilateral filter; except Exception: the image is returned
\* as it came.
reduce_noise(image, fails) ==
    IF fails THEN image
    ELSE [image EXCEPT !.applied = Append(@, "bilateral_filter")]

\* detect_skew_angle: the median of the line angles, 0.0 without lines and
\* on an exception.
detect_skew_angle(env) == env.angle

\* correct_orientation: measures the angle again and rotates when it is over
\* the threshold; except Exception: the image is returned as it came.
correct_orientation(image, env) ==
    IF env.rotate_fails THEN image
    ELSE IF Abs(detect_skew_angle(env)) > SkewThreshold
         THEN [image EXCEPT !.applied = Append(@, "warp_affine")]
         ELSE image

AppendStep(metadata, step) ==
    [metadata EXCEPT !["preprocessing_steps"] = Append(@, step)]

\* preprocess(image_path): the metadata dictionary built before the try
PreprocessCall(file, contrast_fails, noise_fails, rotate_fails, angle) ==
    [at |-> "load",
     env |-> [file |-> file, contrast_fails |-> contrast_fails,
              noise_fails |-> noise_fails, rotate_fails |-> rotate_fails,
              angle |-> angle],
     image |-> [shape |-> <<>>, applied |-> <<>>],
     metadata |-> [original_path |-> file,
                   preprocessing_steps |-> <<>>,
                   skew_corrected |-> FALSE,
                   contrast_enhanced |-> TRUE,
                   noise_reduced |-> TRUE]]

InitPreprocess ==
    /\ mode = "preprocess"
    /\ pc = "call"
    /\ prep \in {PreprocessCall(f, c, n, r, a) :
                    f \in ImageFiles, c \in BOOLEAN, n \in BOOLEAN,
                    r \in BOOLEAN, a \in SkewAngles}
    /\ DedupIdle /\ OcrIdle /\ PiiIdle
    /\ CleanerIdle /\ PipelineIdle /\ RedactIdle

PrepUnchanged ==
    UNCHANGED <<mode, pc, detVars, cleanVars, pipeVars, redactVars>>

\* image = self.load_image(image_path); metadata['original_shape'] = ...
\* An exception is logged and raised again by the handler of preprocess.
LoadImage ==
    /\ mode = "preprocess"
    /\ prep.at = "load"
    /\ \E r \in {load_image(prep.env.file)} :
          prep' = IF r.raised
                  THEN [prep EXCEPT !.at = "raised"]
                  ELSE [prep EXCEPT !.at = "contrast",
                                    !.image = r.image,
                                    !.metadata = Put(@, "original_shape",
                                                     r.image.shape)]
    /\ PrepUnchanged

\* image = self.enhance_contrast(image); steps.append('contrast_enhancement')
EnhanceContrast ==
    /\ mode = "preprocess"
    /\ prep.at = "contrast"
    /\ prep' = [prep EXCEPT
                   !.at = "noise",
                   !.image = enhance_contrast(@, prep.env.contrast_fails),
                   !.metadata = AppendStep(@, "contrast_enhancement")]
    /\ PrepUnchanged

\* image = self.reduce_noise(image); steps.append('noise_reduction')
ReduceNoise ==
    /\ mode = "preprocess"
    /\ prep.at = "noise"
    /\ prep' = [prep EXCEPT
                   !.at = "skew",
                   !.image = reduce_noise(@, prep.env.noise_fails),
                   !.metadata = AppendStep(@, "noise_reduction")]
    /\ PrepUnchanged

\* skew_angle = self.detect_skew_angle(image); if abs(skew_angle) > 0.5: ...;
\* metadata['final_shape'] = image.shape; return image, metadata
CorrectSkew ==
    /\ mode = "preprocess"
    /\ prep.at = "skew"
    /\ \E skew_angle \in {detect_skew_angle(prep.env)} :
          IF Abs(skew_angle) > SkewThreshold
          THEN prep' = [prep EXCEPT
                   !.at = "returned",
                   !.image = correct_orientation(@, prep.env),
                   !.metadata =
                       Put(AppendStep(
                               Put(Put(@, "skew_corrected", TRUE),
                                   "skew_angle", skew_angle),
                               "orientation_correction"),
                           "final_shape", prep.image.shape)]
          ELSE prep' = [prep EXCEPT
                   !.at = "returned",
                   !.metadata = Put(@, "final_shape", prep.image.shape)]
    /\ PrepUnchanged

NextPreprocess ==
    \/ LoadImage
    \/ EnhanceContrast
    \/ ReduceNoise
    \/ CorrectSkew

SpecPreprocess == InitPreprocess /\ [][NextPreprocess]_vars

(***************************************************************************)
(* Properties of _deduplicate_matches (SpecDedup).                         *)
(***************************************************************************)
SortedByStart(ms) ==
    \A i, j \in 1..Len(ms) : i < j => ms[i].start_pos <= ms[j].start_pos

NoTwoOverlap(ms) ==
    \A i, j \in 1..Len(ms) :
        i # j => (ms[i].end_pos <= ms[j].start_pos \/ ms[j].end_pos <= ms[i].start_pos)

\* C2: for any list of candidates with start_pos < end_pos, in any order and
\* with any confidences, the accepted list of _deduplicate_matches is sorted
\* ascending by start_pos and holds no two overlapping matches after every
\* iteration of the walk, and so does the returned list.
C2_DedupSortedNoOverlap ==
    (mode = "dedup" /\ pc \in {"walk", "done"}) =>
        SortedByStart(deduplicated) /\ NoTwoOverlap(deduplicated)

\* C2 witness: the walk has just removed an accepted match and appended the
\* candidate, next to another accepted match that stays.
C2_Witness ==
    /\ mode = "dedup" /\ pc = "walk"
    /\ lastStep = "replaced"
    /\ Len(deduplicated) >= 2
    /\ deduplicated[Len(deduplicated)] = matches[idx]

\* C3: in one iteration of the walk, a candidate that overlaps no accepted
\* match is appended; a candidate that overlaps an accepted match replaces it
\* iff its confidence is strictly higher, and otherwise (lower or equal) the
\* accepted list is left as it is.
C3_ReplaceIffStrictlyHigher ==
    [][(mode = "dedup" /\ pc = "walk" /\ idx' = idx + 1) =>
        LET match == matches[idx + 1]
            hit == {i \in 1..Len(deduplicated) :
                       /\ match.start_pos < deduplicated[i].end_pos
                       /\ match.end_pos > deduplicated[i].start_pos}
        IN  /\ hit = {} => deduplicated' = Append(deduplicated, match)
            /\ \A i \in hit :
                  IF match.confidence > deduplicated[i].confidence
                  THEN deduplicated' =
                          SubSeq(deduplicated, 1, i - 1)
                              \o SubSeq(deduplicated, i + 1, Len(deduplicated))
                              \o <<match>>
                  ELSE deduplicated' = deduplicated]_vars

\* C3 witness: a candidate was dropped against an accepted match of equal
\* confidence that it overlaps.
C3_Witness ==
    /\ mode = "dedup" /\ pc = "walk" /\ lastStep = "dropped"
    /\ \E i \in 1..Len(deduplicated) :
          /\ matches[idx].start_pos < deduplicated[i].end_pos
          /\ matches[idx].end_pos > deduplicated[i].start_pos
          /\ matches[idx].confidence = deduplicated[i].confidence
          /\ matches[idx] # deduplicated[i]

(***************************************************************************)
(* Properties of extract_with_confidence (SpecOcr).                        *)
(***************************************************************************)
\* Availability as fixed at construction: the reader was created, the
\* Tesseract binary was found.
SecondaryAvailable(eng) ==
    IF PrimaryName(eng) = "tesseract" THEN eng.easyocr_reader # "None"
    ELSE eng.tesseract_ok

\* C8: the secondary backend is run (a second entry in engines_tried, and
\* fallback_used) iff the primary result has empty text or confidence below
\* 0.3 and the secondary backend is available, for either preferred engine.
C8_FallbackIffSecondaryAvailable ==
    (mode = "ocr" /\ pc \in {"clean", "done"}) =>
        LET primary == backend_log[1]
            ran == /\ ocr.metadata.fallback_used
                   /\ Len(ocr.metadata.engines_tried) = 2
                   /\ Len(backend_log) = 2
        IN  /\ ran <=> ((primary.text = <<>> \/ primary.conf * 10 < 3 * ConfUnit)
                            /\ SecondaryAvailable(engine))
            /\ ~ran => (~ocr.metadata.fallback_used /\ Len(backend_log) = 1)

\* C9: when the fallback ran, the call returns the fallback's (post-processed)
\* text, its confidence and selected_engine = fallback iff the fallback's
\* confidence is strictly higher than the primary's; otherwise it returns the
\* primary's text and confidence and selected_engine names the primary.
C9_FallbackSelectedIffStrictlyBetter ==
    (mode = "ocr" /\ pc = "done" /\ ocr_result.metadata.fallback_used) =>
        LET primary == backend_log[1]
            fallback == backend_log[2]
            chosen == IF fallback.conf > primary.conf THEN fallback ELSE primary
        IN  /\ ocr_result.text = _clean_extracted_text(chosen.text)
            /\ ocr_result.confidence = chosen.conf
            /\ ocr_result.metadata.selected_engine = chosen.engine
            /\ primary.engine = PrimaryName(engine)
            /\ fallback.engine = OtherEngine(PrimaryName(engine))

\* C9 witness: the fallback ran after a primary result of confidence 0, its
\* confidence is higher, and its text is what the call returns.
C9_Witness ==
    /\ mode = "ocr" /\ pc = "done"
    /\ ocr_result.metadata.fallback_used
    /\ backend_log[2].conf > backend_log[1].conf
    /\ ocr_result.metadata.selected_engine = backend_log[2].engine
    /\ ocr_result.text # <<>>
    /\ ocr_result.confidence = backend_log[2].conf

\* C10: a backend call in which the library raised, or for which there is no
\* EasyOCR reader, returns ("", 0.0); no exception leaves
\* extract_with_confidence, which goes on to return its triple.
C10_BackendFailuresAbsorbed ==
    mode = "ocr" =>
        /\ pc # "raised"
        /\ \A i \in 1..Len(backend_log) :
              /\ ~backend_log[i].raised
              /\ backend_log[i].failed =>
                    (backend_log[i].text = <<>> /\ backend_log[i].conf = 0)
        /\ pc # "done" => ENABLED NextOcr
        /\ pc = "done" => /\ ocr_result.metadata.selected_engine # "unset"
                          /\ ocr_result.metadata.cleaned_length = Len(ocr_result.text)

\* C10 witness: both backends failed and the call returned ("", 0.0, metadata).
C10_Witness ==
    /\ mode = "ocr" /\ pc = "done"
    /\ Len(backend_log) = 2
    /\ backend_log[1].failed /\ backend_log[2].failed
    /\ ocr_result.text = <<>> /\ ocr_result.confidence = 0
    /\ ocr_result.metadata.engines_tried = <<backend_log[1].engine, backend_log[2].engine>>

(***************************************************************************)
(* Properties of PIIDetector (SpecPii).                                    *)
(***************************************************************************)
\* The digits of a string, counted and read by position.
DigitPositions(s) == {i \in 1..Len(s) : s[i] \in Digits}

DigitCount(s) == Cardinality(DigitPositions(s))

NthDigit(s, n) ==
    s[CHOOSE i \in DigitPositions(s) :
          Cardinality({j \in DigitPositions(s) : j <= i}) = n]

\* C1: the list detect_all_pii returns is sorted ascending by start_pos and
\* no two of its matches overlap, whatever their categories.
C1_AllPiiSortedNoOverlap ==
    (mode = "pii" /\ pc = "done") =>
        SortedByStart(all_matches) /\ NoTwoOverlap(all_matches)

\* C4: every confidence a category scorer produces lies in [0, 1], for the
\* candidates of every category and the matches kept, also where the base
\* plus the bonuses exceeds 1.0.
C4_ConfidenceInUnitInterval ==
    mode = "pii" =>
        /\ \A i \in 1..Len(scored) :
              scored[i].confidence >= 0 /\ scored[i].confidence <= 1000
        /\ \A i \in 1..Len(all_matches) :
              all_matches[i].confidence >= 0 /\ all_matches[i].confidence <= 1000

\* C4 witness: a name found by a labelled pattern, in medical context, with
\* two words (0.5 + 0.3 + 0.2 + 0.1), returned with confidence 1.0, next to
\* matches of the four other categories' scorers.
C4_Witness ==
    /\ mode = "pii" /\ pc = "done"
    /\ input_text = <<"P", "a", "t", "i", "e", "n", "t", ":", " ", "J", "o", "h", "n", " ", "D", "o", "e", ",", " ">> \o <<"S", "S", "N", ":", " ", "1", "2", "3", "-", "4", "5", "-", "6", "7", "8", "9">>
    /\ \E i \in 1..Len(all_matches) :
          /\ all_matches[i].pii_type = "name"
          /\ all_matches[i].text = <<"J", "o", "h", "n", " ", "D", "o", "e">>
          /\ all_matches[i].confidence = 1000
    /\ \E i \in 1..Len(all_matches) : all_matches[i].pii_type = "ssn"

\* C5: _is_valid_ssn accepts a string iff it has exactly 9 digits and its
\* first three digits are not 000, not 666 and do not start with 9.
C5_SsnValidIffNineDigitsAndArea ==
    (mode = "pii" /\ pc = "validated" /\ verdict.fn = "ssn") =>
        (verdict.valid <=>
            /\ DigitCount(candidate) = 9
            /\ ~(\A n \in 1..3 : NthDigit(candidate, n) = "0")
            /\ ~(\A n \in 1..3 : NthDigit(candidate, n) = "6")
            /\ NthDigit(candidate, 1) # "9")

\* C5 witness: "123-45-6789" is accepted.
C5_Witness ==
    /\ mode = "pii" /\ pc = "validated" /\ verdict.fn = "ssn"
    /\ candidate = <<"1", "2", "3", "-", "4", "5", "-", "6", "7", "8", "9">>
    /\ verdict.valid

\* C6: _is_valid_ssn rejects every 9-digit string whose digits 4-5 are 00 or
\* whose digits 6-9 are 0000, and no ssn match of detect_ssns is such a string.
C6_NoZeroGroupOrSerial ==
    LET zeroed(s) ==
            /\ DigitCount(s) = 9
            /\ \/ \A n \in 4..5 : NthDigit(s, n) = "0"
               \/ \A n \in 6..9 : NthDigit(s, n) = "0"
    IN  mode = "pii" =>
            /\ (pc = "validated" /\ verdict.fn = "ssn" /\ zeroed(candidate))
                  => ~verdict.valid
            /\ \A i \in 1..Len(all_matches) :
                  all_matches[i].pii_type = "ssn" => ~zeroed(all_matches[i].text)

\* C7: _is_valid_phone_number accepts a string iff it has exactly 10 or 11
\* digits, and every phone match of detect_phone_numbers has 10 or 11 digits.
C7_PhoneValidIffTenOrEleven ==
    mode = "pii" =>
        /\ (pc = "validated" /\ verdict.fn = "phone") =>
              (verdict.valid <=> DigitCount(candidate) \in {10, 11})
        /\ \A i \in 1..Len(all_matches) :
              all_matches[i].pii_type = "phone" =>
                  DigitCount(all_matches[i].text) \in {10, 11}
        /\ \A i \in 1..Len(scored) :
              scored[i].pii_type = "phone" => DigitCount(scored[i].text) \in {10, 11}

\* C7 witness: "555-123-456" (9 digits) is rejected.
C7_Witness ==
    /\ mode = "pii" /\ pc = "validated" /\ verdict.fn = "phone"
    /\ candidate = <<"5", "5", "5", "-", "1", "2", "3", "-", "4", "5", "6">>
    /\ ~verdict.valid

(***************************************************************************)
(* Properties of TextCleaner (SpecClean).                                  *)
(***************************************************************************)
\* C15: for every pair of non-empty strings the quality_score returned by
\* assess_text_quality (the fraction num/den, den > 0) lies in [0,1].
C15_QualityScoreInUnitInterval ==
    (/\ mode = "clean"
     /\ pc = "assessed"
     /\ clean_call.text # <<>>
     /\ clean_call.cleaned_text # <<>>)
    => /\ clean_returns[1].den > 0
       /\ 0 <= clean_returns[1].num
       /\ clean_returns[1].num <= clean_returns[1].den

\* C16: normalize_whitespace and remove_artifacts applied to their own
\* result return it unchanged.
C16_WhitespaceAndArtifactPassesIdempotent ==
    (/\ mode = "clean"
     /\ pc = "reapplied"
     /\ clean_call.fn \in {"normalize_whitespace", "remove_artifacts"})
    => clean_returns[2] = clean_returns[1]

\* C17: every pass of clean_text, the OCR-error correction among them, and
\* clean_text itself return the same text when applied to their own result.
C17_EveryPassAndCleanTextIdempotent ==
    (mode = "clean" /\ pc = "reapplied") =>
        IF clean_call.fn = "clean_text"
        THEN clean_returns[2].text = clean_returns[1].text
        ELSE clean_returns[2] = clean_returns[1]

(***************************************************************************)
(* Properties of generate_redacted_image (SpecRedact).                     *)
(***************************************************************************)
\* C18: with a redaction method other than black_box, blur and pixelate the
\* call never gets to modify the copy or to write the output file, and does
\* not return normally, whatever the list of matches.
C18_InvalidMethodRejectedBeforeWrite ==
    (mode = "redact" /\ redaction.method \notin {"black_box", "blur", "pixelate"})
    => /\ redaction.image = <<>>
       /\ ~redaction.written
       /\ redaction.at # "returned"

(***************************************************************************)
(* Properties of OCRPIIPipeline (SpecPipeline).                            *)
(***************************************************************************)
\* process_image was called and has returned the record in proc_result.
ImageReturned == mode = "pipeline" /\ proc_result.returned

\* process_image is running or has run on proc.image_path.
Called == mode = "pipeline" /\ "started" \in DOMAIN proc

Has(m, k, v) == k \in DOMAIN m /\ m[k] = v

IsPrefix(s, t) == Len(s) <= Len(t) /\ \A i \in 1..Len(s) : s[i] = t[i]

StageOrder ==
    <<"preprocessing", "ocr", "text_cleaning", "pii_detection", "redaction">>

StageIndex(stage) == CHOOSE i \in 1..Len(StageOrder) : StageOrder[i] = stage

\* The input passes the validation of process_image.
InputValid(image_path) == fs[image_path].exists /\ IsJpeg(image_path)

InputStageNames == {"input", "input_validation", "validation"}

\* C12: for a path that does not exist, or is not a JPEG by name,
\* process_image returns an error record (success false, an error message,
\* no text, no matches) whose failing stage is the input stage, and enters no
\* processing stage.
C12_InputErrorTaggedInput ==
    (ImageReturned /\ ~InputValid(proc.image_path)) =>
        /\ Has(proc_result.processing_metadata, "success", FALSE)
        /\ "error_message" \in DOMAIN proc_result.processing_metadata
        /\ proc_result.original_text = <<>>
        /\ proc_result.pii_matches = <<>>
        /\ proc.started = <<>>
        /\ "error_stage" \in DOMAIN proc_result.processing_metadata
        /\ proc_result.processing_metadata["error_stage"] \in InputStageNames

\* An output directory was passed and is not the empty string.
OutputDirSet == request.output_dir.given /\ request.output_dir.path # <<>>

\* The attempted redaction cannot succeed: the directory or the file cannot
\* be written, or the method is not one of the three.
RedactionFails ==
    \/ fs[proc.image_path].redact_io \in {"makedirs", "save"}
    \/ request.redaction_method \notin {"black_box", "blur", "pixelate"}

\* C13: redaction is attempted iff enable_redaction is true, matches were
\* detected and output_dir is set; when the attempt fails the result is still
\* successful, with the cleaned text and the matches, and its metadata has
\* redaction.success = false.
C13_RedactionOptionalAndNonFatal ==
    ImageReturned =>
        /\ ("redaction" \in Range(proc.started))
               <=> (request.enable_redaction /\ proc.pii_matches # <<>> /\ OutputDirSet)
        /\ ("redaction" \in Range(proc.started) /\ RedactionFails) =>
               /\ Has(proc_result.processing_metadata, "success", TRUE)
               /\ proc_result.original_text = proc.cleaned_text
               /\ proc_result.pii_matches = proc.pii_matches
               /\ proc_result.pii_matches # <<>>
               /\ "redaction" \in DOMAIN proc_result.processing_metadata
               /\ proc_result.processing_metadata["redaction"].success = FALSE

\* C13 witness: a redaction with an unknown method was attempted and failed,
\* and the result is successful with its matches.
C13_Witness ==
    /\ ImageReturned
    /\ "redaction" \in Range(proc.started)
    /\ request.redaction_method = "sepia"
    /\ fs[proc.image_path].redact_io = "ok"
    /\ proc_result.processing_metadata["success"]
    /\ ~proc_result.processing_metadata["redaction"].success
    /\ proc_result.pii_matches # <<>>

\* What process_image gives for image_path alone is fixed by what is under
\* that path: whether it succeeds, the stage an error is tagged with, the
\* stages completed, the text and the number of matches.
AloneSucceeds(image_path) ==
    InputValid(image_path) /\ fs[image_path].fails = "none"

AloneErrorStage(image_path) ==
    IF InputValid(image_path) THEN fs[image_path].fails ELSE "pipeline"

GivenAlone(image_path, result) ==
    /\ result.returned
    /\ Has(result.processing_metadata, "input_file", image_path)
    /\ Has(result.processing_metadata, "success", AloneSucceeds(image_path))
    /\ IF AloneSucceeds(image_path)
       THEN /\ result.original_text = CleanedTexts[fs[image_path].ocr_text]
            /\ result.pii_matches = DetectedPii[result.original_text]
            /\ IsPrefix(MandatoryStages,
                        result.processing_metadata["processing_stages"])
       ELSE /\ Has(result.processing_metadata, "error_stage",
                   AloneErrorStage(image_path))
            /\ result.original_text = <<>>
            /\ result.pii_matches = <<>>

\* C14: process_batch handles the paths one after another; the dictionary
\* holds, for every path handled so far and at the end for every path of the
\* input, the result process_image gives for that path alone, whether other
\* images failed or not.
C14_BatchRecordsEveryImage ==
    (mode = "pipeline" /\ request.kind = "batch") =>
        /\ DOMAIN results.dict
               = {request.image_paths[i] : i \in 1..results.done}
        /\ \A p \in DOMAIN results.dict : GivenAlone(p, results.dict[p])
        /\ pc = "batch_done" => results.done = Len(request.image_paths)

\* C14 witness: a batch of two images whose first failed and whose second
\* succeeded has both results.
C14_Witness ==
    /\ mode = "pipeline" /\ pc = "batch_done"
    /\ Len(request.image_paths) = 2
    /\ request.image_paths[1] # request.image_paths[2]
    /\ ~results.dict[request.image_paths[1]].processing_metadata["success"]
    /\ results.dict[request.image_paths[2]].processing_metadata["success"]
    /\ results.dict[request.image_paths[2]].pii_matches # <<>>

\* C19: the stages entered are a prefix of preprocessing, ocr, text_cleaning,
\* pii_detection, redaction (in order, each at most once); a stage is entered
\* only when every stage before it is in processing_stages; processing_stages
\* is a prefix of the order; and a successful result has the four mandatory
\* stages in it.
C19_StagesSequentialNoRetry ==
    Called =>
        /\ IsPrefix(proc.started, StageOrder)
        /\ IsPrefix(proc.processing_metadata["processing_stages"], StageOrder)
        /\ \A i \in 1..Len(proc.started) :
              \A j \in 1..(i - 1) :
                  StageOrder[j] \in Range(proc.processing_metadata["processing_stages"])
        /\ (ImageReturned /\ Has(proc_result.processing_metadata, "success", TRUE)) =>
               IsPrefix(MandatoryStages,
                        proc_result.processing_metadata["processing_stages"])

\* C19 witness: a successful result after all five stages.
C19_Witness ==
    /\ ImageReturned
    /\ proc_result.processing_metadata["success"]
    /\ proc_result.processing_metadata["processing_stages"] = StageOrder
    /\ proc.started = StageOrder

\* C20: the metadata of a returned record has an entry for every stage that
\* was entered, and each entry has a success flag and a duration.
C20_EntryPerAttemptedStage ==
    ImageReturned =>
        \A i \in 1..Len(proc.started) :
            /\ proc.started[i] \in DOMAIN proc_result.processing_metadata
            /\ "success" \in DOMAIN proc_result.processing_metadata[proc.started[i]]
            /\ "duration_seconds"
                   \in DOMAIN proc_result.processing_metadata[proc.started[i]]

(***************************************************************************)
(* Further properties of _deduplicate_matches (SpecDedup).                 *)
(***************************************************************************)
SpansOverlap(a, b) == a.start_pos < b.end_pos /\ a.end_pos > b.start_pos

\* C28: at return, every candidate that is not in the returned list overlaps
\* a match of the returned list whose confidence is at least its own.
C28_DroppedOnlyAgainstKeptMatch ==
    (mode = "dedup" /\ pc = "done") =>
        \A i \in 1..Len(matches) :
            \/ matches[i] \in Range(deduplicated)
            \/ deduplicated = <<>> /\ matches = <<>>
            \/ \E j \in 1..Len(deduplicated) :
                   /\ SpansOverlap(matches[i], deduplicated[j])
                   /\ deduplicated[j].confidence >= matches[i].confidence

\* matches[i] has a confidence strictly greater than every other candidate.
StrictlyBest(i) ==
    \A j \in 1..Len(matches) :
        j # i => matches[j].confidence < matches[i].confidence

\* C29: at return, a candidate whose confidence is strictly greater than that
\* of every other candidate is in the returned list.
C29_StrictlyBestCandidateKept ==
    (mode = "dedup" /\ pc = "done") =>
        \A i \in 1..Len(matches) :
            StrictlyBest(i) => matches[i] \in Range(deduplicated)

\* C29 witness: the strictly best candidate came last in start order,
\* overlapped a match accepted before it, and is in the returned list.
C29_Witness ==
    /\ mode = "dedup" /\ pc = "done"
    /\ Len(matches) = 3
    /\ StrictlyBest(3)
    /\ SpansOverlap(matches[3], matches[1])
    /\ lastStep = "replaced"
    /\ matches[3] \in Range(deduplicated)

(***************************************************************************)
(* Further properties of OCREngine (SpecOcr).                              *)
(***************************************************************************)
\* The backend was found usable by _initialize_engines.
Initialized(name) ==
    IF name = "tesseract" THEN engine.tesseract_ok
    ELSE engine.easyocr_reader # "None"

\* C21: the library of a backend whose initialization failed is never called
\* by extract_with_confidence, as primary or as fallback.
C21_FailedBackendNeverInvoked ==
    mode = "ocr" =>
        \A i \in 1..Len(backend_log) :
            backend_log[i].library_called => Initialized(backend_log[i].engine)

\* The fragments of a backend call that are above the backend's floor
\* (Tesseract also wants a non-blank word).
AboveFloor(entry) ==
    {i \in 1..Len(entry.frags) :
        /\ entry.frags[i].conf > 30
        /\ entry.engine = "tesseract" =>
               \E k \in 1..Len(entry.frags[i].text) :
                   entry.frags[i].text[k] \notin Whitespace}

\* C30: the confidence a backend call returns is 0, and then no fragment was
\* kept, or it is strictly above 0.3; so the primary's confidence is below
\* 0.3 only when no fragment of the primary was kept.
C30_ConfidenceZeroOrAboveFloor ==
    mode = "ocr" =>
        /\ \A i \in 1..Len(backend_log) :
              /\ backend_log[i].conf = 0 \/ backend_log[i].conf * 10 > 3 * ConfUnit
              /\ backend_log[i].conf = 0 <=>
                     (backend_log[i].failed \/ AboveFloor(backend_log[i]) = {})
        /\ (pc = "decide" /\ ocr.confidence * 10 < 3 * ConfUnit) =>
               /\ ocr.confidence = 0
               /\ backend_log[1].failed \/ AboveFloor(backend_log[1]) = {}

\* C30 witness: the primary returned fragments, all at or below the floor, so
\* its confidence is 0 and the decision about the fallback is next.
C30_Witness ==
    /\ mode = "ocr" /\ pc = "decide"
    /\ ~backend_log[1].failed
    /\ Len(backend_log[1].frags) = 2
    /\ backend_log[1].frags[1].conf = 30
    /\ backend_log[1].frags[1].text # <<>>
    /\ ocr.confidence = 0
    /\ ocr.text = <<>>

(***************************************************************************)
(* Further properties of OCRPIIPipeline (SpecPipeline).                    *)
(***************************************************************************)
\* C25: a returned result has a redacted_image_path only if the redaction
\* stage was attempted and succeeded (metadata redaction.success is true).
C25_RedactedPathOnlyAfterSuccess ==
    (ImageReturned /\ proc_result.redacted_image_path # <<>>) =>
        /\ "redaction" \in Range(proc.started)
        /\ "redaction" \in DOMAIN proc_result.processing_metadata
        /\ proc_result.processing_metadata["redaction"].success

\* C26: on a successful run the quality_score of the text_cleaning entry is
\* the composite score num/den that assess_text_quality gives for the
\* extracted text and the cleaned text.
C26_QualityScoreIsCleanerScore ==
    (ImageReturned /\ Has(proc_result.processing_metadata, "success", TRUE)) =>
        LET quality == assess_text_quality(proc.extracted_text, proc.cleaned_text)
        IN  proc_result.processing_metadata["text_cleaning"].quality_score
                * quality.den = quality.num

UnitWords == {<<"m", "g">>, <<"m", "l">>, <<"t", "a", "b">>}

\* One of the words of the text is a unit word, in any case.
HasUnitWord(text) ==
    Range(SplitWords(LowerStr(text), <<>>)) \cap UnitWords # {}

\* C24: no name candidate of detect_names, and no name match it returns, has
\* a value with a unit word (mg, ml, tab) in it.
C24_NoDosageAsName ==
    mode = "pii" =>
        /\ \A i \in 1..Len(scored) :
              scored[i].pii_type = "name" => ~HasUnitWord(scored[i].text)
        /\ \A i \in 1..Len(all_matches) :
              all_matches[i].pii_type = "name" => ~HasUnitWord(all_matches[i].text)

(***************************************************************************)
(* Properties of ImagePreprocessor.preprocess (SpecPreprocess).            *)
(***************************************************************************)
StepOf(operation) ==
    CASE operation = "clahe" -> "contrast_enhancement"
      [] operation = "bilateral_filter" -> "noise_reduction"
      [] operation = "warp_affine" -> "orientation_correction"

PreprocessReturned == mode = "preprocess" /\ prep.at = "returned"

\* C22: when preprocess returns, preprocessing_steps names exactly the
\* operations that changed the image, in the order they were applied; a
\* contrast or noise step that failed and passed the image through unchanged
\* is not in the list.
C22_StepsAreOperationsApplied ==
    PreprocessReturned =>
        prep.metadata["preprocessing_steps"] =
            [i \in 1..Len(prep.image.applied) |-> StepOf(prep.image.applied[i])]

\* C23: when preprocess returns, the image was rotated, 'orientation_correction'
\* is recorded and skew_corrected is true exactly when the measured angle is
\* over 0.5 degrees in absolute value, and a measured angle other than zero is
\* in the metadata as skew_angle, also when it is 0.5 degrees or less.
C23_SkewCorrectedIffOverThreshold ==
    PreprocessReturned =>
        LET angle == detect_skew_angle(prep.env)
            over == Abs(angle) > SkewThreshold
        IN  /\ over <=> "warp_affine" \in Range(prep.image.applied)
            /\ over <=> "orientation_correction"
                            \in Range(prep.metadata["preprocessing_steps"])
            /\ over <=> prep.metadata["skew_corrected"]
            /\ angle # 0 => Has(prep.metadata, "skew_angle", angle)

=============================================================================
